---------------------------- MODULE Spec2Model ----------------------------
(***************************************************************************)
(* The goroutine-dump indexer (gindex): runIndex / processHost and the     *)
(* text functions they use, as a state machine.  Text is a sequence of     *)
(* one-character strings; indexes and slices follow Go (0-based, s[a:b]).  *)
(***************************************************************************)
EXTENDS Integers, Sequences, FiniteSets, TLC

(***************************************************************************)
(* Text primitives (package strings)                                       *)
(***************************************************************************)
Digits == <<"0","1","2","3","4","5","6","7","8","9">>

IsDigit(c) == \E i \in 1..10 : Digits[i] = c

IsHex(c) == IsDigit(c) \/ c \in {"a","b","c","d","e","f","A","B","C","D","E","F"}

IsSpace(c) == c \in {" ", "\t", "\n", "\r"}

\* s[a:b]
Slice(s, a, b) == SubSeq(s, a + 1, b)

\* p occurs in s at 0-based offset i
MatchAt(s, p, i) ==
    /\ i >= 0
    /\ i + Len(p) <= Len(s)
    /\ \A k \in 1..Len(p) : s[i + k] = p[k]

HasPrefix(s, p) == MatchAt(s, p, 0)

Min(S) == CHOOSE x \in S : \A y \in S : x <= y

Max(S) == CHOOSE x \in S : \A y \in S : x >= y

\* strings.Index: first offset of p in s, -1 when absent
Index(s, p) ==
    LET hits == {i \in 0..Len(s) : MatchAt(s, p, i)}
    IN  IF hits = {} THEN -1 ELSE Min(hits)

\* strings.LastIndex
LastIndex(s, p) ==
    LET hits == {i \in 0..Len(s) : MatchAt(s, p, i)}
    IN  IF hits = {} THEN -1 ELSE Max(hits)

Contains(s, p) == Index(s, p) >= 0

\* strings.TrimSpace
TrimSpace(s) ==
    LET keep == {i \in 1..Len(s) : ~IsSpace(s[i])}
    IN  IF keep = {} THEN <<>> ELSE SubSeq(s, Min(keep), Max(keep))

\* strings.Join(lines, "\n")
RECURSIVE Join(_)
Join(lines) ==
    IF Len(lines) = 0 THEN <<>>
    ELSE IF Len(lines) = 1 THEN lines[1]
    ELSE lines[1] \o <<"\n">> \o Join(Tail(lines))

\* strings.Split(s, "\n"): always at least one element
RECURSIVE Split(_)
Split(s) ==
    LET nl == Index(s, <<"\n">>)
    IN  IF nl < 0 THEN <<s>>
        ELSE <<Slice(s, 0, nl)>> \o Split(Slice(s, nl + 1, Len(s)))

\* end (exclusive, 0-based) of the longest run of characters satisfying
\* the class starting at offset i
RunEnd(s, i, InClass(_)) ==
    LET stops == {j \in i..Len(s) : j = Len(s) \/ ~InClass(s[j + 1])}
    IN  Min(stops)

\* fmt.Sscanf(digits, "%d", &n)
RECURSIVE Atoi(_)
Atoi(d) ==
    IF Len(d) = 0 THEN 0
    ELSE 10 * Atoi(SubSeq(d, 1, Len(d) - 1))
         + ((CHOOSE i \in 1..10 : Digits[i] = d[Len(d)]) - 1)

RECURSIVE Itoa(_)
Itoa(n) ==
    IF n < 10 THEN <<Digits[n + 1]>>
    ELSE Itoa(n \div 10) \o <<Digits[(n % 10) + 1]>>

(***************************************************************************)
(* Text literals                                                           *)
(***************************************************************************)
S_CreatedBySp == <<"c","r","e","a","t","e","d"," ","b","y"," ">>
S_CreatedBy == <<"c","r","e","a","t","e","d"," ","b","y">>
S_SpInGoroutineSp == <<" ","i","n"," ","g","o","r","o","u","t","i","n","e"," ">>
S_InGoroutineSp == <<"i","n"," ","g","o","r","o","u","t","i","n","e"," ">>
S_GoroutineSp == <<"g","o","r","o","u","t","i","n","e"," ">>
S_DotGoColon == <<".","g","o",":">>
S_Arrow == <<" ","-",">"," ">>
S_Dots == <<".",".",".">>

(***************************************************************************)
(* The regular expressions of the indexer                                  *)
(***************************************************************************)
\* offsetRe = `\+0x[0-9a-fA-F]+\s*$`, ReplaceAllString(line, "")
offsetReReplace(s) ==
    LET hits == {i \in 0..Len(s) :
                    /\ MatchAt(s, <<"+","0","x">>, i)
                    /\ RunEnd(s, i + 3, IsHex) > i + 3
                    /\ RunEnd(s, RunEnd(s, i + 3, IsHex), IsSpace) = Len(s)}
    IN  IF hits = {} THEN s ELSE Slice(s, 0, Min(hits))

\* createdByRe = `(created by .+) in goroutine \d+`, ReplaceAllString(s, "$1")
RECURSIVE createdByReReplace(_)
createdByReReplace(s) ==
    LET tails(i) == {j \in 0..Len(s) :
                        /\ j >= i + Len(S_CreatedBySp) + 1
                        /\ MatchAt(s, S_SpInGoroutineSp, j)
                        /\ RunEnd(s, j + Len(S_SpInGoroutineSp), IsDigit)
                              > j + Len(S_SpInGoroutineSp)}
        hits == {i \in 0..Len(s) : MatchAt(s, S_CreatedBySp, i) /\ tails(i) # {}}
    IN  IF hits = {} THEN s
        ELSE LET i == Min(hits)
                 j == Max(tails(i))
                 k == RunEnd(s, j + Len(S_SpInGoroutineSp), IsDigit)
             IN  Slice(s, 0, j) \o createdByReReplace(Slice(s, k, Len(s)))

\* the question mark after a pointer value is left in place
RECURSIVE hexPtrReReplace_noMark(_)
hexPtrReReplace_noMark(s) ==
    IF Len(s) = 0 THEN <<>>
    ELSE IF MatchAt(s, <<"0","x">>, 0) /\ RunEnd(s, 2, IsHex) > 2
         THEN S_Dots \o hexPtrReReplace_noMark(Slice(s, RunEnd(s, 2, IsHex), Len(s)))
         ELSE <<s[1]>> \o hexPtrReReplace_noMark(Tail(s))

\* hexPtrRe = `0x[0-9a-fA-F]+\??`, ReplaceAllString(s, "...")
RECURSIVE hexPtrReReplace(_)
hexPtrReReplace(s) ==
    IF Len(s) = 0 THEN <<>>
    ELSE IF MatchAt(s, <<"0","x">>, 0) /\ RunEnd(s, 2, IsHex) > 2
         THEN LET e == RunEnd(s, 2, IsHex)
                  q == IF e < Len(s) /\ s[e + 1] = "?" THEN e + 1 ELSE e
              IN  S_Dots \o hexPtrReReplace(Slice(s, q, Len(s)))
         ELSE <<s[1]>> \o hexPtrReReplace(Tail(s))

\* createdByGoroIDRe = `in goroutine (\d+)\s*$`; the submatch, <<>> when
\* the line does not match
createdByGoroIDReMatch(s) ==
    LET n == Len(S_InGoroutineSp)
        hits == {i \in 0..Len(s) :
                    /\ MatchAt(s, S_InGoroutineSp, i)
                    /\ RunEnd(s, i + n, IsDigit) > i + n
                    /\ RunEnd(s, RunEnd(s, i + n, IsDigit), IsSpace) = Len(s)}
    IN  IF hits = {} THEN <<>>
        ELSE Slice(s, Min(hits) + n, RunEnd(s, Min(hits) + n, IsDigit))

NotStateEnd(c) == c \notin {"]", ","}

\* goroHeaderRe = `(?m)^goroutine (\d+) \[([^\],]+)` applied at a line start
goroHeaderReMatches(line) ==
    LET n == Len(S_GoroutineSp)
        d == RunEnd(line, n, IsDigit)
    IN  /\ HasPrefix(line, S_GoroutineSp)
        /\ d > n
        /\ MatchAt(line, <<" ","[">>, d)
        /\ RunEnd(line, d + 2, NotStateEnd) > d + 2

\* submatch 1 (the id digits) and submatch 2 (the state) of a header line
goroHeaderReID(line) ==
    Slice(line, Len(S_GoroutineSp), RunEnd(line, Len(S_GoroutineSp), IsDigit))

goroHeaderReState(line) ==
    LET d == RunEnd(line, Len(S_GoroutineSp), IsDigit)
    IN  Slice(line, d + 2, RunEnd(line, d + 2, NotStateEnd))

(***************************************************************************)
(* Symbol extraction                                                       *)
(***************************************************************************)
cleanFuncName(fn) ==
    LET lastDot == LastIndex(fn, <<".">>)
    IN  IF lastDot > 0
        THEN LET afterDot == Slice(fn, lastDot, Len(fn))
                 parenIdx == Index(afterDot, <<"(">>)
             IN  IF parenIdx > 0 THEN Slice(fn, 0, lastDot + parenIdx) ELSE fn
        ELSE fn

\* the body of the loop of extractFuncsFromStack for one line: the symbols
\* (none or one) the line contributes
FuncOfLine(rawLine) ==
    LET line == TrimSpace(rawLine)
    IN  IF line = <<>> \/ Contains(line, S_DotGoColon) THEN <<>>
        ELSE IF HasPrefix(line, S_CreatedBy) THEN <<>>
        ELSE LET idx == Index(line, <<"(">>)
                 cut == IF idx > 0 /\ line[idx] \notin {".", "*"}
                        THEN Slice(line, 0, idx) ELSE line
                 fn == cleanFuncName(cut)
             IN  IF fn # <<>> THEN <<fn>> ELSE <<>>

RECURSIVE FuncsOfLines(_)
FuncsOfLines(lines) ==
    IF Len(lines) = 0 THEN <<>>
    ELSE FuncOfLine(lines[1]) \o FuncsOfLines(Tail(lines))

extractFuncsFromStack(stack) == FuncsOfLines(Split(stack))

\* the body of the loop of extractFirstTwoFuncs for one line
LabelOfLine(rawLine) ==
    LET line == TrimSpace(rawLine)
    IN  IF line = <<>> \/ Contains(line, S_DotGoColon) THEN <<>>
        ELSE IF HasPrefix(line, S_CreatedBy) THEN <<>>
        ELSE LET lastSlash == LastIndex(line, <<"/">>)
                 fn == IF lastSlash >= 0 THEN Slice(line, lastSlash + 1, Len(line))
                       ELSE line
                 lastParen == LastIndex(fn, <<"(">>)
             IN  IF lastParen > 0 /\ fn[lastParen] \notin {".", "*"}
                 THEN <<Slice(fn, 0, lastParen)>> ELSE <<fn>>

RECURSIVE LabelsOfLines(_)
LabelsOfLines(lines) ==
    IF Len(lines) = 0 THEN <<>>
    ELSE LabelOfLine(lines[1]) \o LabelsOfLines(Tail(lines))

\* allFuncs[len-2] + " -> " + allFuncs[len-1], one alone, or ""
JoinLastTwo(allFuncs) ==
    IF Len(allFuncs) = 0 THEN <<>>
    ELSE IF Len(allFuncs) = 1 THEN allFuncs[1]
    ELSE allFuncs[Len(allFuncs) - 1] \o S_Arrow \o allFuncs[Len(allFuncs)]

extractFirstTwoFuncs(stack) == JoinLastTwo(LabelsOfLines(Split(stack)))

(***************************************************************************)
(* Dump parser                                                             *)
(***************************************************************************)
Nil == "nil"

\* the three rewrites applied to a stack line
NormalizeLine(line) == hexPtrReReplace(createdByReReplace(offsetReReplace(line)))

\* the loop over lines[1:]: acc = [stackLines, createdBy]
RECURSIVE ScanBlockLines(_, _)
ScanBlockLines(lines, acc) ==
    IF Len(lines) = 0 THEN acc
    ELSE LET line == TrimSpace(lines[1])
         IN  IF line = <<>> THEN ScanBlockLines(Tail(lines), acc)
             ELSE LET m == createdByGoroIDReMatch(line)
                      cb == IF acc.createdBy = 0 /\ m # <<>> THEN Atoi(m)
                            ELSE acc.createdBy
                  IN  ScanBlockLines(Tail(lines),
                          [stackLines |-> Append(acc.stackLines, NormalizeLine(line)),
                           createdBy |-> cb])

\* block: the lines of one goroutine block, header first
parseGoroutineBlock(block) ==
    IF Len(block) < 1 \/ ~goroHeaderReMatches(block[1]) THEN Nil
    ELSE LET r == ScanBlockLines(Tail(block), [stackLines |-> <<>>, createdBy |-> 0])
         IN  [state |-> goroHeaderReState(block[1]),
              stack |-> Join(r.stackLines),
              createdBy |-> r.createdBy]

\* data: the lines of the decompressed dump.  The blocks run from one header
\* line to the next; a later block of the same id replaces an earlier one.
parseGoroutines(data) ==
    LET headerIndices == {i \in 1..Len(data) : goroHeaderReMatches(data[i])}
        blockEnd(i) == IF \E j \in headerIndices : j > i
                       THEN Min({j \in headerIndices : j > i}) - 1
                       ELSE Len(data)
        idOf(i) == Atoi(goroHeaderReID(data[i]))
        ids == {idOf(i) : i \in headerIndices}
        lastOf(id) == Max({i \in headerIndices : idOf(i) = id})
    IN  [id \in ids |-> parseGoroutineBlock(SubSeq(data, lastOf(id), blockEnd(lastOf(id))))]

(***************************************************************************)
(* Input: dump texts as the scraper writes them (debug=2 format)           *)
(***************************************************************************)
\* 'goroutine 1 [running]:'
H1 == <<"g","o","r","o","u","t","i","n","e"," ","1"," ","[","r","u","n","n","i","n","g","]",":">>

\* 'goroutine 2 [select, 5 minutes]:'
H2 == <<"g","o","r","o","u","t","i","n","e"," ","2"," ","[","s","e","l","e","c","t",","," ","5"," ","m","i","n","u","t","e","s","]",":">>

\* 'goroutine 3 [IO wait]:'
H3 == <<"g","o","r","o","u","t","i","n","e"," ","3"," ","[","I","O"," ","w","a","i","t","]",":">>

\* 'main.main()'
L_main == <<"m","a","i","n",".","m","a","i","n","(",")">>

\* '\t/m/main.go:9 +0x1d'
L_mainLoc == <<"\t","/","m","/","m","a","i","n",".","g","o",":","9"," ","+","0","x","1","d">>

\* 'p/q.F(0xc01, 0x2?)'
L_F == <<"p","/","q",".","F","(","0","x","c","0","1",","," ","0","x","2","?",")">>

\* '\t/p/q/f.go:12 +0x85'
L_FLoc == <<"\t","/","p","/","q","/","f",".","g","o",":","1","2"," ","+","0","x","8","5">>

\* 'p/q.(*T).M()'
L_M == <<"p","/","q",".","(","*","T",")",".","M","(",")">>

\* 'p/q.H(0x7)'
L_H == <<"p","/","q",".","H","(","0","x","7",")">>

\* 'created by p/q.G in goroutine 1'
L_By1 == <<"c","r","e","a","t","e","d"," ","b","y"," ","p","/","q",".","G"," ","i","n"," ","g","o","r","o","u","t","i","n","e"," ","1">>

\* 'p/q.F(0xc99, 0x3?)'
L_F2 == <<"p","/","q",".","F","(","0","x","c","9","9",","," ","0","x","3","?",")">>

\* '\t/p/q/f.go:12 +0x9a'
L_FLoc2 == <<"\t","/","p","/","q","/","f",".","g","o",":","1","2"," ","+","0","x","9","a">>

\* 'created by p/q.G in goroutine 3'
L_By3 == <<"c","r","e","a","t","e","d"," ","b","y"," ","p","/","q",".","G"," ","i","n"," ","g","o","r","o","u","t","i","n","e"," ","3">>

\* 's.S(0x1)'
L_S == <<"s",".","S","(","0","x","1",")">>

\* '\t/s/a.s:20 +0x5'
L_SLoc == <<"\t","/","s","/","a",".","s",":","2","0"," ","+","0","x","5">>

\* a root goroutine and a goroutine it created
DumpFamily ==
    << H1, L_main, L_mainLoc, <<>>,
       H2, L_M, L_F, L_FLoc, L_By1 >>

\* goroutine 2 in another stack and without its "created by" line, and
\* another goroutine created by goroutine 1
DumpOrphan ==
    << H2, L_H, L_FLoc, <<>>,
       H3, L_F, L_By1, L_FLoc >>

\* a dump with no goroutine block
DumpEmpty == << <<>> >>

\* goroutine 2 of DumpFamily after a restart of the process: the same frames
\* with other pointers and another offset, created by goroutine 3
DumpAdopted ==
    << H2, L_M, L_F2, L_FLoc2, L_By3 >>

\* goroutine 2 blocked in a function written in assembly: the location
\* line of its top frame names a .s file
DumpAsm ==
    << H2, L_S, L_SLoc, L_F, L_FLoc, L_By1 >>

DumpKinds == {"family", "orphan", "empty", "adopted", "asm"}

DumpText(kind) ==
    CASE kind = "family" -> DumpFamily
      [] kind = "orphan" -> DumpOrphan
      [] kind = "adopted" -> DumpAdopted
      [] kind = "asm" -> DumpAsm
      [] OTHER -> DumpEmpty

(***************************************************************************)
(* Bounds and input universe                                               *)
(***************************************************************************)
\* --workers ranges over 1..MaxWorkers
MaxWorkers == 2

\* dump files over all hosts of one input directory
MaxFiles == 2

HostNames == << <<"h","1">>, <<"h","2">> >>

\* "badname": the file name does not parse as a timestamp; "corrupt": the
\* gzip stream cannot be read
FileKinds == {"family", "orphan", "empty", "badname"}

\* the Unix time in the name of the i-th file of a host directory
Stamp(i) == 1000 + 60 * (i - 1)

\* the sorted file lists of up to n files a host directory can hold
FileLists(n) ==
    UNION {{[i \in 1..m |-> [name |-> Stamp(i), kind |-> ks[i]]] :
                ks \in [1..m -> FileKinds]} : m \in 0..n}

RECURSIVE SumLen(_, _)
SumLen(f, n) == IF n = 0 THEN 0 ELSE Len(f[n]) + SumLen(f, n - 1)

(***************************************************************************)
(* The store (Pebble) and the value codecs                                 *)
(***************************************************************************)
EmptyStore == [k \in {} |-> Nil]

Put(st, key, value) ==
    [k \in DOMAIN st \cup {key} |-> IF k = key THEN value ELSE st[k]]

\* batch.Commit: every record of the batch reaches the store
Apply(st, b) ==
    [k \in DOMAIN st \cup DOMAIN b |-> IF k \in DOMAIN b THEN b[k] ELSE st[k]]

\* the key of a series leaves out the host
GKey_noHost(host, id) == <<"g", ":">> \o Itoa(id)

GKey(host, id) == <<"g", ":">> \o host \o <<":">> \o Itoa(id)

CKey(host, id) == <<"c", ":">> \o host \o <<":">> \o Itoa(id)

SKey(host) == <<"s", ":">> \o host

FKey(fn) == <<"f", ":">> \o fn

MHostsKey == <<"m", ":", "h", "o", "s", "t", "s">>

MFuncsKey == <<"m", ":", "f", "u", "n", "c", "s">>

\* json.Marshal of a []string: a nil slice encodes as null
jsonMarshal(list, isNil) ==
    [codec |-> "json", null |-> isNil, v |-> IF isNil THEN <<>> ELSE list]

\* StackEntry with its json tags; "c" has omitempty
EntryJSON(e) ==
    IF e.CreatedBy = 0
    THEN [t |-> e.Timestamp, s |-> e.State, k |-> e.Stack]
    ELSE [t |-> e.Timestamp, s |-> e.State, k |-> e.Stack, c |-> e.CreatedBy]

SeriesJSON(series) == [e |-> [i \in 1..Len(series) |-> EntryJSON(series[i])]]

ChildInfoJSON(ci) == [i |-> ci.ID, f |-> ci.Funcs, s |-> ci.FirstSeen, e |-> ci.LastSeen]

ChildrenJSON(children) == [i \in 1..Len(children) |-> ChildInfoJSON(children[i])]

OccJSON(occ) == [h |-> occ.Host, g |-> occ.GoroutineID, f |-> occ.FirstSeen, l |-> occ.LastSeen]

FuncIndexJSON(occs) == [o |-> [i \in 1..Len(occs) |-> OccJSON(occs[i])]]

compressJSON(json) == [codec |-> "gzip+json", v |-> json]

\* decompressJSON into a FuncIndex: the occurrences of the stored value
decompressJSON(value) ==
    IF value.codec = "gzip+json"
    THEN [i \in 1..Len(value.v.o) |->
            [Host |-> value.v.o[i].h, GoroutineID |-> value.v.o[i].g,
             FirstSeen |-> value.v.o[i].f, LastSeen |-> value.v.o[i].l]]
    ELSE <<>>

\* what an earlier run of the indexer left at the db path
PriorStore ==
    LET e == [Timestamp |-> 1, State |-> <<"r">>, Stack |-> L_main, CreatedBy |-> 7]
        h0 == <<"h", "0">>
    IN  [k \in {GKey(h0, 9), GKey(HostNames[1], 9), CKey(h0, 7), SKey(h0),
                FKey(<<"m", "a", "i", "n", ".", "m", "a", "i", "n">>),
                MHostsKey, MFuncsKey} |->
            IF k \in {GKey(h0, 9), GKey(HostNames[1], 9)}
                THEN compressJSON(SeriesJSON(<<e>>))
            ELSE IF k = CKey(h0, 7)
                THEN compressJSON(ChildrenJSON(
                        <<[ID |-> 9, Funcs |-> L_main, FirstSeen |-> 1, LastSeen |-> 1]>>))
            ELSE IF k = SKey(h0) THEN compressJSON([t |-> <<1>>, c |-> <<1>>])
            ELSE IF k = MHostsKey THEN jsonMarshal(<<h0>>, FALSE)
            ELSE IF k = MFuncsKey
                THEN jsonMarshal(<< <<"m", "a", "i", "n", ".", "m", "a", "i", "n">> >>, FALSE)
            ELSE compressJSON(FuncIndexJSON(
                    <<[Host |-> h0, GoroutineID |-> 9, FirstSeen |-> 1, LastSeen |-> 1]>>))]

(***************************************************************************)
(* sort.Strings: byte-wise lexicographic order                             *)
(***************************************************************************)
\* the characters 32..95 and 97..126 of ASCII
Printable ==
    <<" ","!","\"","#","$","%","&","'","(",")","*","+",",","-",".","/",
      "0","1","2","3","4","5","6","7","8","9",":",";","<","=",">","?","@",
      "A","B","C","D","E","F","G","H","I","J","K","L","M","N","O","P","Q",
      "R","S","T","U","V","W","X","Y","Z","[","\\","]","^","_">>

Lower ==
    <<"a","b","c","d","e","f","g","h","i","j","k","l","m","n","o","p","q",
      "r","s","t","u","v","w","x","y","z","{","|","}","~">>

Byte(c) ==
    IF c = "\t" THEN 9
    ELSE IF c = "\n" THEN 10
    ELSE IF \E i \in 1..Len(Lower) : Lower[i] = c
         THEN 96 + (CHOOSE i \in 1..Len(Lower) : Lower[i] = c)
    ELSE 31 + (CHOOSE i \in 1..Len(Printable) : Printable[i] = c)

RECURSIVE StringLess(_, _)
StringLess(a, b) ==
    IF Len(b) = 0 THEN FALSE
    ELSE IF Len(a) = 0 THEN TRUE
    ELSE IF a[1] = b[1] THEN StringLess(Tail(a), Tail(b))
    ELSE Byte(a[1]) < Byte(b[1])

\* the elements of a set of strings in ascending order
\* only the symbols of the host processed last are kept
MergeFuncs_lastHost(all, funcs) == funcs

\* for f := range funcs { allFuncs[f] = struct{}{} }
MergeFuncs(all, funcs) == all \cup funcs

RECURSIVE sortStrings(_)
sortStrings(S) ==
    IF S = {} THEN <<>>
    ELSE LET m == CHOOSE x \in S : \A y \in S \ {x} : StringLess(x, y)
         IN  <<m>> \o sortStrings(S \ {m})

\* the orders in which a range over a Go map can visit the keys
Orders(S) ==
    {o \in [1..Cardinality(S) -> S] :
        \A i, j \in 1..Cardinality(S) : i # j => o[i] # o[j]}

(***************************************************************************)
(* parseSnapshotFile                                                       *)
(***************************************************************************)
\* parseGoroutines of each dump text
ParsedDump == [k \in DumpKinds |-> parseGoroutines(DumpText(k))]

\* a file that cannot be read yields an empty map in place of the nil map
parseSnapshotFile_emptyOnError(file) ==
    IF file.kind \in DumpKinds
    THEN [timestamp |-> file.name, isNil |-> FALSE,
          goros |-> ParsedDump[file.kind], logs |-> FALSE]
    ELSE [timestamp |-> 0, isNil |-> FALSE, goros |-> <<>>, logs |-> TRUE]

\* a file that fails is dropped without a log line
parseSnapshotFile_silent(file) ==
    IF file.kind \in DumpKinds
    THEN [timestamp |-> file.name, isNil |-> FALSE,
          goros |-> ParsedDump[file.kind], logs |-> FALSE]
    ELSE [timestamp |-> 0, isNil |-> TRUE, goros |-> <<>>, logs |-> FALSE]

\* file.name is the stamp of a well-formed name: time.Parse then Unix().
\* isNil: the goros map returned is nil
parseSnapshotFile(file) ==
    IF file.kind = "badname"
    THEN [timestamp |-> 0, isNil |-> TRUE, goros |-> <<>>, logs |-> TRUE]
    ELSE IF file.kind = "corrupt"
    THEN [timestamp |-> 0, isNil |-> TRUE, goros |-> <<>>, logs |-> TRUE]
    ELSE [timestamp |-> file.name, isNil |-> FALSE,
          goros |-> ParsedDump[file.kind], logs |-> FALSE]

(***************************************************************************)
(* processHost: aggregation                                                *)
(***************************************************************************)
\* the collected results are left in the order the workers delivered them
SortedByTimestamp_asDelivered(rs) == {rs}

\* the outcomes sort.Slice (not stable) can give for the collected results
SortedByTimestamp(rs) ==
    {[i \in 1..Len(rs) |-> rs[o[i]]] : o \in
        {o \in Orders(1..Len(rs)) :
            \A i, j \in 1..Len(rs) :
                i < j => ~(rs[o[j]].timestamp < rs[o[i]].timestamp)}}

\* the new entry is put in front of the series instead of behind it
AddResult_prepend(series, r) ==
    [id \in DOMAIN series \cup DOMAIN r.goros |->
        IF id \in DOMAIN r.goros
        THEN <<[Timestamp |-> r.timestamp,
                State |-> r.goros[id].state,
                Stack |-> r.goros[id].stack,
                CreatedBy |-> r.goros[id].createdBy]>> \o
             (IF id \in DOMAIN series THEN series[id] ELSE <<>>)
        ELSE series[id]]

\* the loop over r.goros for one result: append one StackEntry per goroutine
AddResult(series, r) ==
    [id \in DOMAIN series \cup DOMAIN r.goros |->
        IF id \in DOMAIN r.goros
        THEN (IF id \in DOMAIN series THEN series[id] ELSE <<>>) \o
             <<[Timestamp |-> r.timestamp,
                State |-> r.goros[id].state,
                Stack |-> r.goros[id].stack,
                CreatedBy |-> r.goros[id].createdBy]>>
        ELSE series[id]]

RECURSIVE BuildSeries(_, _)
BuildSeries(series, rs) ==
    IF Len(rs) = 0 THEN series
    ELSE BuildSeries(AddResult(series, rs[1]), Tail(rs))

NoSeries == [id \in {} |-> <<>>]

(***************************************************************************)
(* processHost: function occurrences                                       *)
(***************************************************************************)
\* the set of symbols in all entries of one series
SeriesFuncs(series) ==
    UNION {{f[i] : i \in 1..Len(f)} :
            f \in {extractFuncsFromStack(series[n].Stack) : n \in 1..Len(series)}}

\* the symbol set is not reset between the goroutine ids: every id gets
\* the symbols of every series
GoroResults_anySeries(host, allSeries, goroID) ==
    LET series == allSeries[goroID]
    IN  IF Len(series) = 0 THEN {}
        ELSE {[fn |-> fn, goroID |-> goroID,
               occ |-> [Host |-> host, GoroutineID |-> goroID,
                        FirstSeen |-> series[1].Timestamp,
                        LastSeen |-> series[Len(series)].Timestamp]] :
                fn \in UNION {SeriesFuncs(allSeries[g]) : g \in DOMAIN allSeries}}

\* one occurrence per entry in which the symbol appears, with the
\* timestamp of that entry
GoroResults_perAppearance(host, allSeries, goroID) ==
    LET series == allSeries[goroID]
    IN  UNION {{[fn |-> fn, goroID |-> goroID,
                 occ |-> [Host |-> host, GoroutineID |-> goroID,
                          FirstSeen |-> series[n].Timestamp,
                          LastSeen |-> series[n].Timestamp]] :
                  fn \in SeriesFuncs(<<series[n]>>)} : n \in 1..Len(series)}

\* the occurrences one worker builds for one goroutine id of its chunk
GoroResults(host, allSeries, goroID) ==
    LET series == allSeries[goroID]
    IN  IF Len(series) = 0 THEN {}
        ELSE {[fn |-> fn, goroID |-> goroID,
               occ |-> [Host |-> host, GoroutineID |-> goroID,
                        FirstSeen |-> series[1].Timestamp,
                        LastSeen |-> series[Len(series)].Timestamp]] :
                fn \in SeriesFuncs(series)}

\* the results one occurrence worker sends for its chunk of goroutine ids
LocalResults(host, allSeries, ids) ==
    UNION {GoroResults(host, allSeries, ids[n]) : n \in 1..Len(ids)}

\* the collector: funcOccurrences[r.fn][r.goroID] = r.occ for each result
MergeResults(funcOcc, rs) ==
    LET fns == DOMAIN funcOcc \cup {r.fn : r \in rs}
    IN  [fn \in fns |->
            LET old == IF fn \in DOMAIN funcOcc THEN funcOcc[fn] ELSE [g \in {} |-> Nil]
                new == {r \in rs : r.fn = fn}
            IN  [g \in DOMAIN old \cup {r.goroID : r \in new} |->
                    IF \E r \in new : r.goroID = g
                    THEN (CHOOSE r \in new : r.goroID = g).occ
                    ELSE old[g]]]

NoFuncs == [fn \in {} |-> Nil]

\* the chunk size is rounded down
Chunk_roundDown(goroIDs, workers, i) ==
    LET chunkSize == Len(goroIDs) \div workers
        start == i * chunkSize
        end == IF start + chunkSize > Len(goroIDs) THEN Len(goroIDs)
               ELSE start + chunkSize
    IN  IF start >= Len(goroIDs) THEN <<>> ELSE Slice(goroIDs, start, end)

\* goroIDs[start:end] for worker i (0-based), <<>> when the loop broke before
Chunk(goroIDs, workers, i) ==
    LET chunkSize == (Len(goroIDs) + workers - 1) \div workers
        start == i * chunkSize
        end == IF start + chunkSize > Len(goroIDs) THEN Len(goroIDs)
               ELSE start + chunkSize
    IN  IF start >= Len(goroIDs) THEN <<>> ELSE Slice(goroIDs, start, end)

(***************************************************************************)
(* processHost: children index                                             *)
(***************************************************************************)
\* the entries with a parent id, in series order
WithParent(series) == {n \in 1..Len(series) : series[n].CreatedBy # 0}

\* the label is taken from the first entry of the series
LabelEntry_first(series) == series[1]

\* the stack the entry-point label of a child is taken from
LabelEntry(series) == series[Min(WithParent(series))]

\* the ChildInfo is filed under the id of the child instead of the parent
AddChild_byChild(index, goroID, series) ==
    IF Len(series) = 0 \/ WithParent(series) = {} THEN index
    ELSE LET info == [ID |-> goroID,
                      Funcs |-> extractFirstTwoFuncs(LabelEntry(series).Stack),
                      FirstSeen |-> series[1].Timestamp,
                      LastSeen |-> series[Len(series)].Timestamp]
         IN  [p \in DOMAIN index \cup {goroID} |->
                IF p = goroID
                THEN (IF p \in DOMAIN index THEN index[p] ELSE <<>>) \o <<info>>
                ELSE index[p]]

\* the ChildInfo is filed under every parent id found in the series
RECURSIVE FileUnder(_, _, _)
FileUnder(index, parents, info) ==
    IF parents = {} THEN index
    ELSE LET q == CHOOSE x \in parents : TRUE
         IN  FileUnder([p \in DOMAIN index \cup {q} |->
                            IF p = q
                            THEN (IF p \in DOMAIN index THEN index[p] ELSE <<>>) \o <<info>>
                            ELSE index[p]],
                       parents \ {q}, info)

AddChild_everyParent(index, goroID, series) ==
    IF Len(series) = 0 \/ WithParent(series) = {} THEN index
    ELSE FileUnder(index, {series[n].CreatedBy : n \in WithParent(series)},
                   [ID |-> goroID,
                    Funcs |-> extractFirstTwoFuncs(LabelEntry(series).Stack),
                    FirstSeen |-> series[1].Timestamp,
                    LastSeen |-> series[Len(series)].Timestamp])

\* only the first entry of the series is looked at for a parent id
AddChild_firstEntryOnly(index, goroID, series) ==
    IF Len(series) = 0 \/ series[1].CreatedBy = 0 THEN index
    ELSE LET parentID == series[1].CreatedBy
             info == [ID |-> goroID,
                      Funcs |-> extractFirstTwoFuncs(series[1].Stack),
                      FirstSeen |-> series[1].Timestamp,
                      LastSeen |-> series[Len(series)].Timestamp]
         IN  [p \in DOMAIN index \cup {parentID} |->
                IF p = parentID
                THEN (IF p \in DOMAIN index THEN index[p] ELSE <<>>) \o <<info>>
                ELSE index[p]]

\* one iteration of the loop over goroSeries
AddChild(index, goroID, series) ==
    IF Len(series) = 0 \/ WithParent(series) = {} THEN index
    ELSE LET parentID == series[Min(WithParent(series))].CreatedBy
             info == [ID |-> goroID,
                      Funcs |-> extractFirstTwoFuncs(LabelEntry(series).Stack),
                      FirstSeen |-> series[1].Timestamp,
                      LastSeen |-> series[Len(series)].Timestamp]
         IN  [p \in DOMAIN index \cup {parentID} |->
                IF p = parentID
                THEN (IF p \in DOMAIN index THEN index[p] ELSE <<>>) \o <<info>>
                ELSE index[p]]

RECURSIVE BuildChildrenIndex(_, _, _)
BuildChildrenIndex(index, order, allSeries) ==
    IF Len(order) = 0 THEN index
    ELSE BuildChildrenIndex(AddChild(index, order[1], allSeries[order[1]]),
                            Tail(order), allSeries)

NoChildren == [p \in {} |-> <<>>]

(***************************************************************************)
(* State                                                                   *)
(***************************************************************************)
VARIABLES
    hosts,            \* findHosts: the host directories, in name order
    files,            \* files[h]: the sorted dump files of host number h
    numWorkers,       \* --workers
    fault,            \* the store operation that fails in this run, if any
    store,            \* the Pebble database at dbPath; an earlier run left one there
    pc,               \* position of the driver (runIndex / processHost)
    hostIdx,          \* index of the host being processed
    allFuncs,         \* runIndex: union of the symbols of the hosts done
    logged,           \* error lines written to the log by the store writes
    parseLog,         \* the dump files parseSnapshotFile logged as failed
    writes,           \* history: how many Set calls each key has received
    faultHit,         \* the failing operation has been executed
    fileCh, fileChClosed, nQueued,
    wIdle,            \* parser workers waiting at "range fileCh"
    wParsing,         \* the files parser workers hold
    wExited,          \* parser workers that returned
    results, resultsClosed, allResults,
    reordered,        \* history: the workers delivered the results out of order
    goroSeries, statsTimestamps, statsCounts,
    ostate, ochunk,   \* occurrence workers
    resultCh, resultChClosed, funcOccurrences,
    batch, batchSize, seriesTodo,
    childrenIndex, childTodo,
    funcTodo, hostFuncs,
    input,            \* the text handed to a function of the parser called alone,
                      \* or the request handed to the web server
    output            \* the results of the calls made on it, or the response

inputVars == <<hosts, files, numWorkers, fault>>

parseVars == <<fileCh, fileChClosed, nQueued, wIdle, wParsing, wExited, results,
               resultsClosed, allResults>>

aggVars == <<reordered, goroSeries, statsTimestamps, statsCounts>>

occVars == <<ostate, ochunk, resultCh, resultChClosed, funcOccurrences>>

writeVars == <<batch, batchSize, seriesTodo, childrenIndex, childTodo,
               funcTodo, hostFuncs>>

textVars == <<input, output>>

vars == <<inputVars, store, pc, hostIdx, allFuncs, logged, parseLog, writes, faultHit,
          parseVars, aggVars, occVars, writeVars, textVars>>

BatchLimit == 1000

NoWrites == [k \in {} |-> 0]

\* one more successful db.Set or batch.Set of the key
CountSet(w, key) ==
    [k \in DOMAIN w \cup {key} |->
        IF k = key THEN (IF k \in DOMAIN w THEN w[k] ELSE 0) + 1 ELSE w[k]]

NoFault == [op |-> "none", key |-> <<>>]

Workers == 1..numWorkers

host == hosts[hostIdx]

\* the locals of processHost before the function runs
HostLocalsInit ==
    /\ fileCh = <<>> /\ fileChClosed = FALSE /\ nQueued = 0
    /\ wIdle = 0 /\ wParsing = {} /\ wExited = 0
    /\ results = <<>> /\ resultsClosed = FALSE /\ allResults = <<>>
    /\ reordered = FALSE
    /\ goroSeries = NoSeries /\ statsTimestamps = <<>> /\ statsCounts = <<>>
    /\ ostate = [w \in 1..MaxWorkers |-> "none"]
    /\ ochunk = [w \in 1..MaxWorkers |-> <<>>]
    /\ resultCh = <<>> /\ resultChClosed = FALSE /\ funcOccurrences = NoFuncs
    /\ batch = EmptyStore /\ batchSize = 0 /\ seriesTodo = {}
    /\ childrenIndex = NoChildren /\ childTodo = {}
    /\ funcTodo = {} /\ hostFuncs = {}

InputInit ==
    /\ hosts \in {SubSeq(HostNames, 1, n) : n \in 0..Len(HostNames)}
    /\ files \in [1..Len(hosts) -> FileLists(MaxFiles)]
    /\ SumLen(files, Len(hosts)) <= MaxFiles
    /\ numWorkers \in 1..MaxWorkers

ControlInit ==
    /\ store = PriorStore
    /\ pc = "start"
    /\ hostIdx = 0
    /\ allFuncs = {}
    /\ logged = 0
    /\ parseLog = {}
    /\ writes = NoWrites
    /\ faultHit = FALSE
    /\ HostLocalsInit
    /\ input = <<>>
    /\ output = <<>>

Init == InputInit /\ fault = NoFault /\ ControlInit

\* the store operations that can fail in a run: the commit of a batch of
\* series, and the write of one record of each kind
Faults ==
    {[op |-> "commit", key |-> HostNames[1]],
     [op |-> "batchSet", key |-> GKey(HostNames[1], 2)],
     [op |-> "set", key |-> CKey(HostNames[1], 1)],
     [op |-> "set", key |-> SKey(HostNames[1])],
     [op |-> "set", key |-> FKey(<<"p", "/", "q", ".", "F">>)]}

InitFault == InputInit /\ fault \in Faults /\ ControlInit

(***************************************************************************)
(* runIndex: open the store, record the hosts                              *)
(***************************************************************************)
\* the directory at dbPath is opened as it is
RemoveAll_keep(st) == st

\* os.RemoveAll(dbPath) followed by pebble.Open: what the opened store holds
RemoveAll(st) == EmptyStore

Fails(op, key) == fault.op = op /\ fault.key = key

\* the loop leaves as soon as the channel holds nothing
RangeEnds_onEmpty(ch, closed) == ch = <<>>

\* for x := range ch: the loop ends when ch is closed and drained
RangeEnds(ch, closed) == ch = <<>> /\ closed

OpenDB ==
    /\ pc = "start"
    /\ store' = RemoveAll(store)
    /\ pc' = "storeHosts"
    /\ UNCHANGED <<inputVars, textVars, parseLog, writes, hostIdx, allFuncs, logged, faultHit,
                   parseVars, aggVars, occVars, writeVars>>

StoreHosts ==
    /\ pc = "storeHosts"
    /\ store' = Put(store, MHostsKey, jsonMarshal(hosts, hosts = <<>>))
    /\ writes' = CountSet(writes, MHostsKey)
    /\ allFuncs' = {}
    /\ hostIdx' = 1
    /\ pc' = "nextHost"
    /\ UNCHANGED <<inputVars, textVars, parseLog, logged, faultHit, parseVars, aggVars, occVars, writeVars>>

(***************************************************************************)
(* processHost: parsing the dump files in parallel                         *)
(***************************************************************************)
\* for i := 0; i < numWorkers; i++ { wg.Add(1); go func() {...}() }
WorkersStarted(workers) == IF workers > 0 THEN workers ELSE 0

\* glob and sort the files, make the channels, start the parser workers.
\* The workers are anonymous goroutines running the same closure: the
\* state keeps how many wait, which files are being parsed, how many left.
BeginHost ==
    /\ pc = "nextHost"
    /\ hostIdx <= Len(hosts)
    /\ wIdle' = WorkersStarted(numWorkers)
    /\ pc' = "queue"
    /\ UNCHANGED <<inputVars, textVars, parseLog, writes, store, hostIdx, allFuncs, logged, faultHit,
                   fileCh, fileChClosed, nQueued, wParsing, wExited, results,
                   resultsClosed, allResults, aggVars, occVars, writeVars>>

\* fileCh <- f; the channel holds len(files)
QueueFile ==
    /\ pc = "queue"
    /\ nQueued < Len(files[hostIdx])
    /\ Len(fileCh) < Len(files[hostIdx])
    /\ fileCh' = Append(fileCh, files[hostIdx][nQueued + 1])
    /\ nQueued' = nQueued + 1
    /\ UNCHANGED <<inputVars, textVars, parseLog, writes, store, pc, hostIdx, allFuncs, logged, faultHit,
                   fileChClosed, wIdle, wParsing, wExited, results, resultsClosed,
                   allResults, aggVars, occVars, writeVars>>

\* close(fileCh), and start the goroutine that closes results
CloseFileCh ==
    /\ pc = "queue"
    /\ nQueued = Len(files[hostIdx])
    /\ fileChClosed' = TRUE
    /\ pc' = "collect"
    /\ UNCHANGED <<inputVars, textVars, parseLog, writes, store, hostIdx, allFuncs, logged, faultHit,
                   fileCh, nQueued, wIdle, wParsing, wExited, results,
                   resultsClosed, allResults, aggVars, occVars, writeVars>>

\* for file := range fileCh: a waiting worker takes the next file
WorkerRecv ==
    /\ wIdle > 0
    /\ fileCh # <<>>
    /\ wIdle' = wIdle - 1
    /\ wParsing' = wParsing \cup {Head(fileCh)}
    /\ fileCh' = Tail(fileCh)
    /\ UNCHANGED <<inputVars, textVars, parseLog, writes, store, pc, hostIdx, allFuncs, logged, faultHit,
                   fileChClosed, nQueued, wExited, results, resultsClosed,
                   allResults, aggVars, occVars, writeVars>>

\* parseSnapshotFile, and results <- r when goros != nil
WorkerParse(file) ==
    /\ file \in wParsing
    /\ LET r == parseSnapshotFile(file)
       IN  /\ r.isNil \/ Len(results) < Len(files[hostIdx])
           /\ results' = IF ~r.isNil
                         THEN Append(results, [timestamp |-> r.timestamp, goros |-> r.goros])
                         ELSE results
           /\ parseLog' = IF r.logs
                          THEN parseLog \cup {[host |-> hostIdx, file |-> file]}
                          ELSE parseLog
    /\ wParsing' = wParsing \ {file}
    /\ wIdle' = wIdle + 1
    /\ UNCHANGED <<inputVars, textVars, writes, store, pc, hostIdx, allFuncs, logged, faultHit,
                   fileCh, fileChClosed, nQueued, wExited, resultsClosed,
                   allResults, aggVars, occVars, writeVars>>

\* the range loop ends on the closed, drained channel; wg.Done()
WorkerExit ==
    /\ wIdle > 0
    /\ RangeEnds(fileCh, fileChClosed)
    /\ wIdle' = wIdle - 1
    /\ wExited' = wExited + 1
    /\ UNCHANGED <<inputVars, textVars, parseLog, writes, store, pc, hostIdx, allFuncs, logged, faultHit,
                   fileCh, fileChClosed, nQueued, wParsing, results, resultsClosed,
                   allResults, aggVars, occVars, writeVars>>

\* the group was told of one more goroutine than calls Done
WaitReturns_extraAdd(done, added) == done = added + 1

\* wg.Wait() returns when every goroutine added has called Done
WaitReturns(done, added) == done = added

\* wg.Wait(); close(results)
CloseResults ==
    /\ pc = "collect"
    /\ ~resultsClosed
    /\ WaitReturns(wExited, WorkersStarted(numWorkers))
    /\ resultsClosed' = TRUE
    /\ UNCHANGED <<inputVars, textVars, parseLog, writes, store, pc, hostIdx, allFuncs, logged, faultHit,
                   fileCh, fileChClosed, nQueued, wIdle, wParsing, wExited, results,
                   allResults, aggVars, occVars, writeVars>>

\* for r := range results { allResults = append(allResults, r) }
Collect ==
    /\ pc = "collect"
    /\ results # <<>>
    /\ allResults' = Append(allResults, Head(results))
    /\ results' = Tail(results)
    /\ UNCHANGED <<inputVars, textVars, parseLog, writes, store, pc, hostIdx, allFuncs, logged, faultHit,
                   fileCh, fileChClosed, nQueued, wIdle, wParsing, wExited, resultsClosed,
                   aggVars, occVars, writeVars>>

\* the loop ends; sort the results, build the series and the stats
Aggregate ==
    /\ pc = "collect"
    /\ RangeEnds(results, resultsClosed)
    /\ \E sorted \in SortedByTimestamp(allResults) :
        /\ allResults' = sorted
        /\ reordered' = (sorted # allResults)
        /\ goroSeries' = BuildSeries(NoSeries, sorted)
        /\ statsTimestamps' = [i \in 1..Len(sorted) |-> sorted[i].timestamp]
        /\ statsCounts' = [i \in 1..Len(sorted) |-> Cardinality(DOMAIN sorted[i].goros)]
    /\ pc' = "occ"
    /\ UNCHANGED <<inputVars, textVars, parseLog, writes, store, hostIdx, allFuncs, logged, faultHit,
                   fileCh, fileChClosed, nQueued, wIdle, wParsing, wExited, results,
                   resultsClosed, occVars, writeVars>>

(***************************************************************************)
(* processHost: function occurrences in parallel                           *)
(***************************************************************************)
\* list the goroutine ids (map order), cut the chunks, start the workers
\* and the goroutine that closes resultCh. make(chan []funcOccResult,
\* numWorkers) panics for a negative size and the division by numWorkers
\* panics for zero: the process ends there.
StartOccWorkers ==
    /\ pc = "occ"
    /\ IF numWorkers <= 0
       THEN /\ pc' = "panic"
            /\ UNCHANGED <<ochunk, ostate>>
       ELSE /\ \E goroIDs \in Orders(DOMAIN goroSeries) :
                /\ ochunk' = [w \in 1..MaxWorkers |->
                        IF w <= numWorkers THEN Chunk(goroIDs, numWorkers, w - 1)
                        ELSE <<>>]
                /\ ostate' = [w \in 1..MaxWorkers |->
                        IF w <= numWorkers /\ Chunk(goroIDs, numWorkers, w - 1) # <<>>
                        THEN "running" ELSE "none"]
            /\ pc' = "merge"
    /\ UNCHANGED <<inputVars, textVars, parseLog, writes, store, hostIdx, allFuncs, logged, faultHit,
                   parseVars, aggVars, resultCh, resultChClosed, funcOccurrences,
                   writeVars>>

\* the channel holds one value
ResultChCap_one(workers) == 1

\* resultCh := make(chan []funcOccResult, numWorkers)
ResultChCap(workers) == workers

\* one occurrence worker: build the local results, resultCh <- localResults
OccWorker(w) ==
    /\ ostate[w] = "running"
    /\ Len(resultCh) < ResultChCap(numWorkers)
    /\ resultCh' = Append(resultCh, LocalResults(host, goroSeries, ochunk[w]))
    /\ ostate' = [ostate EXCEPT ![w] = "exited"]
    /\ ochunk' = [ochunk EXCEPT ![w] = <<>>]    \* the goroutine's locals are gone
    /\ UNCHANGED <<inputVars, textVars, parseLog, writes, store, pc, hostIdx, allFuncs, logged, faultHit,
                   parseVars, aggVars, resultChClosed, funcOccurrences,
                   writeVars>>

\* funcWg.Wait(); close(resultCh)
CloseResultCh ==
    /\ pc = "merge"
    /\ ~resultChClosed
    /\ \A w \in Workers : ostate[w] # "running"
    /\ resultChClosed' = TRUE
    /\ UNCHANGED <<inputVars, textVars, parseLog, writes, store, pc, hostIdx, allFuncs, logged, faultHit,
                   parseVars, aggVars, ostate, ochunk, resultCh, funcOccurrences,
                   writeVars>>

\* for results := range resultCh: merge one worker's results
MergeRecv ==
    /\ pc = "merge"
    /\ resultCh # <<>>
    /\ funcOccurrences' = MergeResults(funcOccurrences, Head(resultCh))
    /\ resultCh' = Tail(resultCh)
    /\ UNCHANGED <<inputVars, textVars, parseLog, writes, store, pc, hostIdx, allFuncs, logged, faultHit,
                   parseVars, aggVars, ostate, ochunk, resultChClosed, writeVars>>

\* the merge loop ends; batch := db.NewBatch()
MergeDone ==
    /\ pc = "merge"
    /\ RangeEnds(resultCh, resultChClosed)
    /\ batch' = EmptyStore
    /\ batchSize' = 0
    /\ seriesTodo' = DOMAIN goroSeries
    /\ pc' = "series"
    /\ UNCHANGED <<inputVars, textVars, parseLog, writes, store, hostIdx, allFuncs, logged, faultHit,
                   parseVars, aggVars, occVars, childrenIndex, childTodo,
                   funcTodo, hostFuncs>>

(***************************************************************************)
(* processHost: writing the records                                        *)
(***************************************************************************)
\* the batch is committed when it holds more than BatchLimit records
BatchFull_over(size) == size > BatchLimit

\* if batchSize >= 1000
BatchFull(size) == size >= BatchLimit

\* one iteration of the loop writing the series (map order)
WriteSeries ==
    /\ pc = "series"
    /\ \E goroID \in seriesTodo :
        LET key == GKey(host, goroID)
            value == compressJSON(SeriesJSON(goroSeries[goroID]))
            setFails == Fails("batchSet", key)
            added == IF setFails THEN batch ELSE Put(batch, key, value)
            full == BatchFull(batchSize + 1)
            commitFails == Fails("commit", host)
        IN  /\ seriesTodo' = seriesTodo \ {goroID}
            /\ logged' = IF setFails THEN logged + 1 ELSE logged
            /\ writes' = IF setFails THEN writes ELSE CountSet(writes, key)
            /\ batch' = IF full THEN EmptyStore ELSE added
            /\ batchSize' = IF full THEN 0 ELSE batchSize + 1
            /\ store' = IF full /\ ~commitFails THEN Apply(store, added) ELSE store
            /\ faultHit' = (faultHit \/ setFails \/ (full /\ commitFails))
    /\ UNCHANGED <<inputVars, textVars, parseLog, pc, hostIdx, allFuncs, parseVars, aggVars, occVars,
                   childrenIndex, childTodo, funcTodo, hostFuncs>>

\* if batchSize > 0 { batch.Commit(pebble.Sync) }: the error is dropped
FlushSeries ==
    /\ pc = "series"
    /\ seriesTodo = {}
    /\ store' = IF batchSize > 0 /\ ~Fails("commit", host)
                THEN Apply(store, batch) ELSE store
    /\ faultHit' = (faultHit \/ (batchSize > 0 /\ Fails("commit", host)))
    /\ pc' = "children"
    /\ UNCHANGED <<inputVars, textVars, parseLog, writes, hostIdx, allFuncs, logged, parseVars, aggVars,
                   occVars, writeVars>>

\* build childrenIndex by a loop over goroSeries (map order)
BuildChildren ==
    /\ pc = "children"
    /\ \E order \in Orders(DOMAIN goroSeries) :
        LET index == BuildChildrenIndex(NoChildren, order, goroSeries)
        IN  /\ childrenIndex' = index
            /\ childTodo' = DOMAIN index
    /\ pc' = "writeChildren"
    /\ UNCHANGED <<inputVars, textVars, parseLog, writes, store, hostIdx, allFuncs, logged, faultHit,
                   parseVars, aggVars, occVars, batch, batchSize, seriesTodo,
                   funcTodo, hostFuncs>>

\* one iteration of the loop writing the children lists
WriteChildren ==
    /\ pc = "writeChildren"
    /\ \E parentID \in childTodo :
        LET key == CKey(host, parentID)
            value == compressJSON(ChildrenJSON(childrenIndex[parentID]))
            setFails == Fails("set", key)
        IN  /\ childTodo' = childTodo \ {parentID}
            /\ store' = IF setFails THEN store ELSE Put(store, key, value)
            /\ writes' = IF setFails THEN writes ELSE CountSet(writes, key)
            /\ logged' = IF setFails THEN logged + 1 ELSE logged
            /\ faultHit' = (faultHit \/ setFails)
    /\ UNCHANGED <<inputVars, textVars, parseLog, pc, hostIdx, allFuncs, parseVars, aggVars, occVars,
                   batch, batchSize, seriesTodo, childrenIndex, funcTodo, hostFuncs>>

\* the loop ends; store the stats of the host
WriteStats ==
    /\ pc = "writeChildren"
    /\ childTodo = {}
    /\ LET key == SKey(host)
           value == compressJSON([t |-> statsTimestamps, c |-> statsCounts])
           setFails == Fails("set", key)
       IN  /\ store' = IF setFails THEN store ELSE Put(store, key, value)
           /\ writes' = IF setFails THEN writes ELSE CountSet(writes, key)
           /\ logged' = IF setFails THEN logged + 1 ELSE logged
           /\ faultHit' = (faultHit \/ setFails)
    /\ funcTodo' = DOMAIN funcOccurrences
    /\ hostFuncs' = {}
    /\ pc' = "funcs"
    /\ UNCHANGED <<inputVars, textVars, parseLog, hostIdx, allFuncs, parseVars, aggVars, occVars,
                   batch, batchSize, seriesTodo, childrenIndex, childTodo>>

\* the record is written from the new occurrences alone
AppendOccurrences_replace(existing, new) == new

\* existing.Occurrences = append(existing.Occurrences, *occ) for each occ
AppendOccurrences(existing, new) == existing \o new

\* one iteration of the loop merging funcOccurrences into the f: records
MergeFuncIndex ==
    /\ pc = "funcs"
    /\ \E funcName \in funcTodo :
        \E order \in Orders(DOMAIN funcOccurrences[funcName]) :
            LET key == FKey(funcName)
                existing == IF key \in DOMAIN store THEN decompressJSON(store[key])
                            ELSE <<>>
                new == [i \in 1..Len(order) |-> funcOccurrences[funcName][order[i]]]
                value == compressJSON(FuncIndexJSON(AppendOccurrences(existing, new)))
                setFails == Fails("set", key)
            IN  /\ funcTodo' = funcTodo \ {funcName}
                /\ hostFuncs' = hostFuncs \cup {funcName}
                /\ store' = IF setFails THEN store ELSE Put(store, key, value)
                /\ writes' = IF setFails THEN writes ELSE CountSet(writes, key)
                /\ logged' = IF setFails THEN logged + 1 ELSE logged
                /\ faultHit' = (faultHit \/ setFails)
    /\ UNCHANGED <<inputVars, textVars, parseLog, pc, hostIdx, allFuncs, parseVars, aggVars, occVars,
                   batch, batchSize, seriesTodo, childrenIndex, childTodo>>

\* processHost returns allFuncs; runIndex adds them and takes the next host
ReturnHost ==
    /\ pc = "funcs"
    /\ funcTodo = {}
    /\ allFuncs' = MergeFuncs(allFuncs, hostFuncs)
    /\ hostIdx' = hostIdx + 1
    /\ pc' = "nextHost"
    /\ fileCh' = <<>> /\ fileChClosed' = FALSE /\ nQueued' = 0
    /\ wIdle' = 0 /\ wParsing' = {} /\ wExited' = 0
    /\ results' = <<>> /\ resultsClosed' = FALSE /\ allResults' = <<>>
    /\ reordered' = FALSE
    /\ goroSeries' = NoSeries /\ statsTimestamps' = <<>> /\ statsCounts' = <<>>
    /\ ostate' = [w \in 1..MaxWorkers |-> "none"]
    /\ ochunk' = [w \in 1..MaxWorkers |-> <<>>]
    /\ resultCh' = <<>> /\ resultChClosed' = FALSE /\ funcOccurrences' = NoFuncs
    /\ batch' = EmptyStore /\ batchSize' = 0 /\ seriesTodo' = {}
    /\ childrenIndex' = NoChildren /\ childTodo' = {}
    /\ funcTodo' = {} /\ hostFuncs' = {}
    /\ UNCHANGED <<inputVars, textVars, parseLog, writes, store, logged, faultHit>>

\* after the last host: sort the function list and store m:funcs
StoreFuncs ==
    /\ pc = "nextHost"
    /\ hostIdx > Len(hosts)
    /\ store' = Put(store, MFuncsKey, jsonMarshal(sortStrings(allFuncs), FALSE))
    /\ writes' = CountSet(writes, MFuncsKey)
    /\ pc' = "done"
    /\ UNCHANGED <<inputVars, textVars, parseLog, hostIdx, allFuncs, logged, faultHit,
                   parseVars, aggVars, occVars, writeVars>>

Next ==
    \/ OpenDB
    \/ StoreHosts
    \/ BeginHost
    \/ QueueFile
    \/ CloseFileCh
    \/ WorkerRecv
    \/ \E file \in wParsing : WorkerParse(file)
    \/ WorkerExit
    \/ CloseResults
    \/ Collect
    \/ Aggregate
    \/ StartOccWorkers
    \/ \E w \in Workers : OccWorker(w)
    \/ CloseResultCh
    \/ MergeRecv
    \/ MergeDone
    \/ WriteSeries
    \/ FlushSeries
    \/ BuildChildren
    \/ WriteChildren
    \/ WriteStats
    \/ MergeFuncIndex
    \/ ReturnHost
    \/ StoreFuncs

Spec == Init /\ [][Next]_vars

\* one host directory whose files may also hold an unreadable gzip stream
DropFileLists ==
    UNION {{[i \in 1..m |-> [name |-> Stamp(i), kind |-> ks[i]]] :
                ks \in [1..m -> FileKinds \cup {"corrupt"}]} : m \in 0..MaxFiles}

InitDrop ==
    /\ hosts = <<HostNames[1]>>
    /\ files \in [{1} -> DropFileLists]
    /\ numWorkers \in 1..MaxWorkers
    /\ fault = NoFault
    /\ ControlInit

\* a run over one host with dump files that fail to parse
SpecDrop == InitDrop /\ [][Next]_vars

\* one host directory whose dumps show goroutine 2 with and without a
\* parent, and with two parents
KinFileLists ==
    UNION {{[i \in 1..m |-> [name |-> Stamp(i), kind |-> ks[i]]] :
                ks \in [1..m -> {"family", "orphan", "adopted"}]} : m \in 0..MaxFiles}

InitKin ==
    /\ hosts = <<HostNames[1]>>
    /\ files \in [{1} -> KinFileLists]
    /\ numWorkers \in 1..MaxWorkers
    /\ fault = NoFault
    /\ ControlInit

\* a run over one host whose goroutines change their parent
SpecKin == InitKin /\ [][Next]_vars

(***************************************************************************)
(* The functions of the parser called alone                                *)
(***************************************************************************)
\* the indexer at rest: no host directory, nothing started
PipelineIdle ==
    /\ hosts = <<>> /\ files = <<>> /\ numWorkers = 1 /\ fault = NoFault
    /\ store = PriorStore /\ pc = "start" /\ hostIdx = 0 /\ allFuncs = {}
    /\ logged = 0 /\ parseLog = {} /\ writes = NoWrites /\ faultHit = FALSE
    /\ HostLocalsInit

pipelineVars == <<inputVars, store, pc, hostIdx, allFuncs, logged, parseLog, writes,
                  faultHit,
                  parseVars, aggVars, occVars, writeVars>>

\* stack lines are put together from up to MaxFrags of these pieces
MaxFrags == 3

LineFrags ==
    {<<"c","r","e","a","t","e","d"," ","b","y"," ","a">>,
     <<" ","i","n"," ","g","o","r","o","u","t","i","n","e"," ","1">>,
     <<" ","i","n"," ","g","o","r","o","u","t","i","n","e"," ","2","3">>,
     <<" ","+","0","x","1","f">>,
     <<"0","x","c","0","?">>,
     <<"f","(">>,
     <<")">>,
     <<"\t","/","a",".","g","o",":","1">>}

RECURSIVE Concat(_)
Concat(parts) == IF Len(parts) = 0 THEN <<>> ELSE Head(parts) \o Concat(Tail(parts))

StackLines ==
    UNION {{Concat(parts) : parts \in [1..n -> LineFrags]} : n \in 0..MaxFrags}

InitNormalize == PipelineIdle /\ input \in StackLines /\ output = <<>>

\* the three rewrites are applied to the line, then to their own result
Normalize ==
    /\ Len(output) < 2
    /\ output' = Append(output, NormalizeLine(IF output = <<>> THEN input
                                               ELSE output[Len(output)]))
    /\ UNCHANGED <<pipelineVars, input>>

SpecNormalize == InitNormalize /\ [][Normalize]_vars

\* The block of one goroutine as two dumps show it: the same frames, with
\* other pointer values, another frame offset and another goroutine number
\* in the "created by" line.
PtrValues == {<<"0","x","c","0","1">>, <<"0","x","2","?">>, <<"0","x","0">>}

FrameOffsets == {<<"+","0","x","8","5">>, <<"+","0","x","1","d"," ">>}

GoroNumbers == {<<"1">>, <<"2","3">>}

BlockOf(p1, p2, o, n) ==
    << H2,
       <<"p","/","q",".","F","(">> \o p1 \o <<",", " ">> \o p2 \o <<")">>,
       <<"\t","/","p","/","q","/","f",".","g","o",":","1","2"," ">> \o o,
       <<"c","r","e","a","t","e","d"," ","b","y"," ","p","/","q",".","G"," ","i","n"," ","g","o","r","o","u","t","i","n","e"," ">> \o n >>

BlockVariants ==
    {BlockOf(p1, p2, o, n) :
        p1 \in PtrValues, p2 \in PtrValues, o \in FrameOffsets, n \in GoroNumbers}

InitBlockPair ==
    PipelineIdle /\ input \in BlockVariants \X BlockVariants /\ output = <<>>

\* both blocks are parsed; the stacks are what AddResult would persist
ParseBlockPair ==
    /\ output = <<>>
    /\ output' = <<parseGoroutineBlock(input[1]).stack,
                   parseGoroutineBlock(input[2]).stack>>
    /\ UNCHANGED <<pipelineVars, input>>

SpecBlockPair == InitBlockPair /\ [][ParseBlockPair]_vars

\* one host directory whose dumps may show a frame in an assembly file
AsmFileLists ==
    UNION {{[i \in 1..m |-> [name |-> Stamp(i), kind |-> ks[i]]] :
                ks \in [1..m -> {"family", "asm"}]} : m \in 0..MaxFiles}

InitAsm ==
    /\ hosts = <<HostNames[1]>>
    /\ files \in [{1} -> AsmFileLists]
    /\ numWorkers \in 1..MaxWorkers
    /\ fault = NoFault
    /\ ControlInit

\* a run over one host with frames in assembly files
SpecAsm == InitAsm /\ [][Next]_vars

\* a run in which one store operation fails
SpecFault == InitFault /\ [][Next]_vars

(***************************************************************************)
(* Vocabulary of the properties                                            *)
(***************************************************************************)
\* the goroutine ids each dump text lists, read off the text
DumpTaskIds(kind) ==
    CASE kind = "family" -> {1, 2}
      [] kind = "orphan" -> {2, 3}
      [] kind = "adopted" -> {2}
      [] kind = "asm" -> {2}
      [] OTHER -> {}

IdRange == 0..9

HostIdxs == 1..Len(hosts)

\* the files of host h that parse, in name order
ParsedFiles(h) == {i \in 1..Len(files[h]) : files[h][i].kind \in DumpKinds}

\* the dumps of host h in which a goroutine id appears
DumpsWith(h, id) == {i \in ParsedFiles(h) : id \in DumpTaskIds(files[h][i].kind)}

\* processHost has committed the series of host h
SeriesWritten(h) ==
    h < hostIdx \/ (h = hostIdx /\ pc \in {"children", "writeChildren", "funcs"})

\* processHost has written the children lists and the stats of host h
StatsWritten(h) == h < hostIdx \/ (h = hostIdx /\ pc = "funcs")

\* the entries of the stored series of (host h, id)
StoredEntries(h, id) == store[GKey(hosts[h], id)].v.e

NonDecreasing(seq, Key(_)) ==
    \A i, j \in 1..Len(seq) : i < j => Key(seq[i]) <= Key(seq[j])

EntryTime(e) == e.t

\* C1: for every host and goroutine id, the stored series g:<host>:<id> is
\* in non-decreasing timestamp order and has exactly one entry per parsed
\* dump in which the id appears, in whatever order the parser workers
\* delivered their results.
C1_SeriesOrderedOnePerDump ==
    pc # "start" =>
        \A h \in HostIdxs, id \in IdRange :
            LET key == GKey(hosts[h], id)
            IN  /\ key \in DOMAIN store =>
                    /\ NonDecreasing(StoredEntries(h, id), EntryTime)
                    /\ Len(StoredEntries(h, id)) = Cardinality(DumpsWith(h, id))
                /\ SeriesWritten(h) =>
                    (key \in DOMAIN store <=> DumpsWith(h, id) # {})

\* two dumps of one goroutine were delivered out of order and its series
\* of two entries is stored
C1_Witness ==
    /\ reordered
    /\ SeriesWritten(hostIdx)
    /\ \E id \in IdRange :
        /\ GKey(host, id) \in DOMAIN store
        /\ Len(StoredEntries(hostIdx, id)) >= 2

Range(seq) == {seq[i] : i \in 1..Len(seq)}

\* the elements of a set of numbers in ascending order
Ascending(S) ==
    CHOOSE o \in Orders(S) : \A i, j \in 1..Cardinality(S) : i < j => o[i] < o[j]

\* the children list stored under c:<host h>:<p>
StoredChildren(h, p) == store[CKey(hosts[h], p)].v

\* the entries of a decoded series that carry a parent id ("c" is present)
HasParent(e) == "c" \in DOMAIN e

\* the symbols that symbol extraction yields for the stored series of (h, id)
\* The stacks of the dumps, with the results of the two extractions computed
\* once for each.
DumpStacks ==
    UNION {{ParsedDump[k][id].stack : id \in DOMAIN ParsedDump[k]} : k \in DumpKinds}

FuncsOfDumpStack == [st \in DumpStacks |-> Range(extractFuncsFromStack(st))]

LabelOfDumpStack == [st \in DumpStacks |-> extractFirstTwoFuncs(st)]

SymbolsOf(stack) ==
    IF stack \in DumpStacks THEN FuncsOfDumpStack[stack]
    ELSE Range(extractFuncsFromStack(stack))

LabelOf(stack) ==
    IF stack \in DumpStacks THEN LabelOfDumpStack[stack]
    ELSE extractFirstTwoFuncs(stack)

StoredSymbols(h, id) ==
    UNION {SymbolsOf(StoredEntries(h, id)[m].k) : m \in 1..Len(StoredEntries(h, id))}

\* the keys f:<symbol> of the store, and the symbol of such a key
FuncKeys == {k \in DOMAIN store : k[1] = "f"}

SymbolOf(k) == SubSeq(k, 3, Len(k))

\* the occurrences stored under f:<fn> for (host name, id)
OccurrencesOf(fn, hname, id) ==
    {i \in 1..Len(store[FKey(fn)].v.o) :
        store[FKey(fn)].v.o[i].h = hname /\ store[FKey(fn)].v.o[i].g = id}

\* C2: children symmetry.  For every ChildInfo with child id C stored under
\* c:<host>:<P>, the series g:<host>:<C> is stored and has at least one
\* entry whose parent id is P.
C2_ChildrenSymmetry ==
    pc # "start" =>
        \A h \in HostIdxs, p \in IdRange :
            CKey(hosts[h], p) \in DOMAIN store =>
                \A n \in 1..Len(StoredChildren(h, p)) :
                    LET child == StoredChildren(h, p)[n].i
                    IN  /\ GKey(hosts[h], child) \in DOMAIN store
                        /\ \E m \in 1..Len(StoredEntries(h, child)) :
                            /\ HasParent(StoredEntries(h, child)[m])
                            /\ StoredEntries(h, child)[m].c = p

\* a children list with a child is stored whose series has an entry
\* without a parent id next to the one with it
C2_Witness ==
    /\ pc # "start"
    /\ \E h \in HostIdxs, p \in IdRange :
        /\ CKey(hosts[h], p) \in DOMAIN store
        /\ \E n \in 1..Len(StoredChildren(h, p)) :
            \E m \in 1..Len(StoredEntries(h, StoredChildren(h, p)[n].i)) :
                ~HasParent(StoredEntries(h, StoredChildren(h, p)[n].i)[m])

\* the first entry of a decoded series that carries a parent id
FirstWithParent(entries) == Min({m \in 1..Len(entries) : HasParent(entries[m])})

\* C3 (as stated): the label of every stored ChildInfo is the one computed
\* from the stack of the first entry of the child's series, also when that
\* entry carries no parent id.
C3_LabelFromEarliestEntry ==
    pc # "start" =>
        \A h \in HostIdxs, p \in IdRange :
            CKey(hosts[h], p) \in DOMAIN store =>
                \A n \in 1..Len(StoredChildren(h, p)) :
                    LET ci == StoredChildren(h, p)[n]
                    IN  ci.f = LabelOf(StoredEntries(h, ci.i)[1].k)

\* C3 (amended): the label of every stored ChildInfo is the one computed
\* from the stack of the first entry of the child's series that carries a
\* parent id, the entry its parent is read from: the last two symbols
\* joined by " -> ", one alone, or empty.
C3_LabelFromParentEntry ==
    pc # "start" =>
        \A h \in HostIdxs, p \in IdRange :
            CKey(hosts[h], p) \in DOMAIN store =>
                \A n \in 1..Len(StoredChildren(h, p)) :
                    LET ci == StoredChildren(h, p)[n]
                        es == StoredEntries(h, ci.i)
                    IN  ci.f = LabelOf(es[FirstWithParent(es)].k)

\* a child is stored whose earliest entry has no parent id and another
\* stack than the entry the parent id was found in
C3_Witness ==
    /\ pc # "start"
    /\ \E h \in HostIdxs, p \in IdRange :
        /\ CKey(hosts[h], p) \in DOMAIN store
        /\ \E n \in 1..Len(StoredChildren(h, p)) :
            LET es == StoredEntries(h, StoredChildren(h, p)[n].i)
            IN  /\ ~HasParent(es[1])
                /\ es[1].k # es[FirstWithParent(es)].k

\* C4: once processHost has returned for host H, for every goroutine id T
\* and symbol S extracted from the stored series of T on H, the record f:S
\* exists and holds exactly one occurrence (H, T), also after later hosts
\* were merged into f:S.
C4_OneOccurrencePerHostTask ==
    \A h \in HostIdxs :
        h < hostIdx =>
            \A id \in IdRange :
                GKey(hosts[h], id) \in DOMAIN store =>
                    \A fn \in StoredSymbols(h, id) :
                        /\ FKey(fn) \in DOMAIN store
                        /\ Cardinality(OccurrencesOf(fn, hosts[h], id)) = 1

\* the rebuild is over and some f: record holds occurrences of two hosts
C4_Witness ==
    /\ pc = "done"
    /\ \E k \in FuncKeys :
        \E i, j \in 1..Len(store[k].v.o) : store[k].v.o[i].h # store[k].v.o[j].h

\* C5: occurrence covers series.  For every occurrence (H, T) stored under
\* f:S, the series g:<H>:<T> is stored and symbol extraction yields S for
\* the stack of at least one of its entries.
C5_OccurrenceCoversSeries ==
    pc # "start" =>
        \A k \in FuncKeys :
            \A i \in 1..Len(store[k].v.o) :
                \E h \in HostIdxs :
                    /\ hosts[h] = store[k].v.o[i].h
                    /\ GKey(hosts[h], store[k].v.o[i].g) \in DOMAIN store
                    /\ SymbolOf(k) \in StoredSymbols(h, store[k].v.o[i].g)

\* an f: record is stored that lists some but not all goroutines of a host
C5_Witness ==
    /\ pc # "start"
    /\ \E k \in FuncKeys, h \in HostIdxs :
        /\ \E i \in 1..Len(store[k].v.o) : store[k].v.o[i].h = hosts[h]
        /\ \E id \in IdRange :
            /\ GKey(hosts[h], id) \in DOMAIN store
            /\ OccurrencesOf(SymbolOf(k), hosts[h], id) = {}

\* C6: for every host, the stored s:<host> is the list, ascending by
\* timestamp, of one (timestamp, count) pair per dump file that parsed,
\* the count being the number of goroutine ids of the dump (0 for an empty
\* dump); the two arrays have the same length.
C6_SnapshotCounts ==
    \A h \in HostIdxs :
        StatsWritten(h) =>
            LET ps == Ascending(ParsedFiles(h))
            IN  /\ SKey(hosts[h]) \in DOMAIN store
                /\ store[SKey(hosts[h])].v.t =
                        [i \in 1..Len(ps) |-> files[h][ps[i]].name]
                /\ store[SKey(hosts[h])].v.c =
                        [i \in 1..Len(ps) |->
                            Cardinality(DumpTaskIds(files[h][ps[i]].kind))]
                /\ Len(store[SKey(hosts[h])].v.t) = Len(store[SKey(hosts[h])].v.c)

\* the counts of a host are stored whose files were delivered out of order
\* or include a file that is dropped and an empty dump
C6_Witness ==
    \E h \in HostIdxs :
        /\ StatsWritten(h)
        /\ \/ h = hostIdx /\ reordered
           \/ /\ \E i \in 1..Len(files[h]) : files[h][i].kind = "badname"
              /\ \E i \in 1..Len(files[h]) : files[h][i].kind = "empty"

\* the symbols extraction yields for the dumps of the hosts of this run
InputSymbols ==
    UNION {SymbolsOf(ParsedDump[files[h][i].kind][id].stack) :
            <<h, i, id>> \in {x \in HostIdxs \X (1..MaxFiles + 1) \X IdRange :
                                /\ x[2] \in ParsedFiles(x[1])
                                /\ x[3] \in DumpTaskIds(files[x[1]][x[2]].kind)}}

\* C7: rebuild wipes prior state.  When the rebuild is over, every key of
\* the store stems from the input of this run: a g: key names a host of the
\* run and a goroutine id of its dumps, c: and s: keys name a host of the
\* run, every f: occurrence names a host of the run and a goroutine id of
\* its dumps, m:hosts lists the hosts of the run, and m:funcs lists symbols
\* of its dumps.
C7_RebuildWipesPriorState ==
    pc = "done" =>
        \A k \in DOMAIN store :
            \/ k = MHostsKey /\ store[k] = jsonMarshal(hosts, hosts = <<>>)
            \/ k = MFuncsKey /\ Range(store[k].v) \subseteq InputSymbols
            \/ \E h \in HostIdxs, id \in IdRange :
                k = GKey(hosts[h], id) /\ DumpsWith(h, id) # {}
            \/ \E h \in HostIdxs, id \in IdRange :
                k = CKey(hosts[h], id) /\ ParsedFiles(h) # {}
            \/ \E h \in HostIdxs : k = SKey(hosts[h])
            \/ /\ k \in FuncKeys
               /\ \A i \in 1..Len(store[k].v.o) :
                    \E h \in HostIdxs :
                        /\ store[k].v.o[i].h = hosts[h]
                        /\ DumpsWith(h, store[k].v.o[i].g) # {}

\* the rebuild is over for a host that the earlier run had indexed too,
\* and a record the earlier run had left has been written anew
C7_Witness ==
    /\ pc = "done"
    /\ Len(hosts) >= 1
    /\ \E k \in FuncKeys : k \in DOMAIN PriorStore

\* what a run with one worker collects: the files are parsed in name order
RECURSIVE SequentialResults(_)
SequentialResults(fs) ==
    IF Len(fs) = 0 THEN <<>>
    ELSE LET r == parseSnapshotFile(Head(fs))
         IN  (IF r.isNil THEN <<>>
              ELSE <<[timestamp |-> r.timestamp, goros |-> r.goros]>>)
             \o SequentialResults(Tail(fs))

SequentialSeries(h) == BuildSeries(NoSeries, SequentialResults(files[h]))

SequentialChildren(h) ==
    BuildChildrenIndex(NoChildren, Ascending(DOMAIN SequentialSeries(h)),
                       SequentialSeries(h))

\* C8: parallel determinism.  Once the g:, c: and s: records of a host are
\* written, with any worker count and under any interleaving of the
\* workers, they are the keys and values that the run with one worker
\* writes for the same files; children lists are compared as sets.
C8_ParallelDeterminism ==
    \A h \in HostIdxs :
        StatsWritten(h) =>
            LET series == SequentialSeries(h)
                children == SequentialChildren(h)
                res == SequentialResults(files[h])
            IN  /\ \A id \in IdRange :
                    /\ GKey(hosts[h], id) \in DOMAIN store <=> id \in DOMAIN series
                    /\ id \in DOMAIN series =>
                        store[GKey(hosts[h], id)] = compressJSON(SeriesJSON(series[id]))
                    /\ CKey(hosts[h], id) \in DOMAIN store <=> id \in DOMAIN children
                    /\ id \in DOMAIN children =>
                        /\ store[CKey(hosts[h], id)].codec = "gzip+json"
                        /\ Len(StoredChildren(h, id)) = Len(children[id])
                        /\ Range(StoredChildren(h, id)) =
                                Range(ChildrenJSON(children[id]))
                /\ SKey(hosts[h]) \in DOMAIN store
                /\ store[SKey(hosts[h])] =
                        compressJSON([t |-> [i \in 1..Len(res) |-> res[i].timestamp],
                                      c |-> [i \in 1..Len(res) |->
                                                Cardinality(DOMAIN res[i].goros)]])

\* a run with more than one worker whose parser workers delivered the
\* results out of order has written the records of the host
C8_Witness ==
    /\ numWorkers > 1
    /\ reordered
    /\ hostIdx \in HostIdxs
    /\ StatsWritten(hostIdx)
    /\ \E id \in IdRange : CKey(host, id) \in DOMAIN store

\* C9 (as stated): m:hosts and m:funcs are written only after processHost
\* has written the records of every host.
C9_MetadataWrittenLast ==
    (pc # "start" /\ (MHostsKey \in DOMAIN store \/ MFuncsKey \in DOMAIN store)) =>
        \A h \in HostIdxs : StatsWritten(h) /\ h < hostIdx

\* C10 (as stated): when a store operation has failed and the rebuild is
\* over, the failure has been logged and every record other than the one
\* that failed is in the store.
C10_FailureLoggedAndSkipped ==
    (pc = "done" /\ faultHit) =>
        /\ logged > 0
        /\ \A h \in HostIdxs :
            /\ SKey(hosts[h]) # fault.key => SKey(hosts[h]) \in DOMAIN store
            /\ \A id \in IdRange :
                /\ (DumpsWith(h, id) # {} /\ GKey(hosts[h], id) # fault.key) =>
                        GKey(hosts[h], id) \in DOMAIN store
                /\ (id \in DOMAIN SequentialChildren(h)
                        /\ CKey(hosts[h], id) # fault.key) =>
                        CKey(hosts[h], id) \in DOMAIN store

\* the files of host h that parseSnapshotFile gives up on
DroppedFiles(h) == {i \in 1..Len(files[h]) : files[h][i].kind \notin DumpKinds}

\* the stored series of host h hold an entry with timestamp t for goroutine id
HasEntryAt(h, id, t) ==
    /\ GKey(hosts[h], id) \in DOMAIN store
    /\ \E m \in 1..Len(StoredEntries(h, id)) : StoredEntries(h, id)[m].t = t

\* C11: once the records of a host are written, every dump file of the host
\* whose name is no timestamp or whose stream is unreadable has been logged,
\* has no entry in any series and no pair in s:<host>, and every other dump
\* file of the host has its pair in s:<host> and one entry in the series of
\* each goroutine id it lists.
C11_BadFileLoggedAndDropped ==
    \A h \in HostIdxs :
        StatsWritten(h) =>
            /\ SKey(hosts[h]) \in DOMAIN store
            /\ Len(store[SKey(hosts[h])].v.t) = Cardinality(ParsedFiles(h))
            /\ \A i \in DroppedFiles(h) :
                /\ [host |-> h, file |-> files[h][i]] \in parseLog
                /\ files[h][i].name \notin Range(store[SKey(hosts[h])].v.t)
                /\ \A id \in IdRange : ~HasEntryAt(h, id, files[h][i].name)
            /\ \A i \in ParsedFiles(h) :
                /\ files[h][i].name \in Range(store[SKey(hosts[h])].v.t)
                /\ \A id \in DumpTaskIds(files[h][i].kind) :
                        HasEntryAt(h, id, files[h][i].name)

\* the records of a host are written that holds an unreadable file next to
\* a dump with goroutines
C11_Witness ==
    \E h \in HostIdxs :
        /\ StatsWritten(h)
        /\ \E i \in DroppedFiles(h) : files[h][i].kind = "corrupt"
        /\ \E i \in ParsedFiles(h) : DumpTaskIds(files[h][i].kind) # {}

\* C12: within one host, a child goroutine id is listed at most once in a
\* children list and in the list of at most one parent id.
C12_ChildListedOnce ==
    pc # "start" =>
        \A h \in HostIdxs, p1, p2 \in IdRange :
            (CKey(hosts[h], p1) \in DOMAIN store /\ CKey(hosts[h], p2) \in DOMAIN store) =>
                \A n1 \in 1..Len(StoredChildren(h, p1)), n2 \in 1..Len(StoredChildren(h, p2)) :
                    StoredChildren(h, p1)[n1].i = StoredChildren(h, p2)[n2].i =>
                        (p1 = p2 /\ n1 = n2)

\* the children lists are stored of a host where one goroutine has entries
\* with two different parent ids
C12_Witness ==
    /\ pc # "start"
    /\ \E h \in HostIdxs, p \in IdRange :
        /\ CKey(hosts[h], p) \in DOMAIN store
        /\ \E n \in 1..Len(StoredChildren(h, p)) :
            LET es == StoredEntries(h, StoredChildren(h, p)[n].i)
            IN  \E a, b \in 1..Len(es) :
                    HasParent(es[a]) /\ HasParent(es[b]) /\ es[a].c # es[b].c

\* C13 (as stated): normalization is idempotent.  For every stack line,
\* applying the three rewrites to the normalized line gives the normalized
\* line again.
C13_NormalizeIdempotent == Len(output) = 2 => output[2] = output[1]

\* C14: stack equality across pointers.  Two blocks of a goroutine that
\* differ only in hex pointer values, in the trailing frame offset and in
\* the goroutine number of the "created by" line are parsed to equal
\* stacks, so the stacks of the two StackEntry records are equal.
C14_StacksEqualAcrossPointers ==
    output # <<>> => output[1] = output[2]

\* two blocks that differ in the pointers, the offset and the goroutine
\* number have been parsed
C14_Witness ==
    /\ output # <<>>
    /\ input[1][2] # input[2][2]
    /\ input[1][3] # input[2][3]
    /\ input[1][4] # input[2][4]

\* a location line as the parser classifies it: it contains ".go:", or
\* begins with "/" or with a tab and "/"
IsLocationLine(line) ==
    \/ Contains(line, S_DotGoColon)
    \/ HasPrefix(line, <<"/">>)
    \/ HasPrefix(line, <<"\t", "/">>)

\* the stack without its location lines
WithoutLocationLines(stack) ==
    LET lines == Split(stack)
        keep == {i \in 1..Len(lines) : ~IsLocationLine(lines[i])}
        order == Ascending(keep)
    IN  Join([i \in 1..Len(order) |-> lines[order[i]]])

\* the symbols of the stored series of host h, location lines left out
SymbolsSansLocation(h) ==
    UNION {UNION {Range(extractFuncsFromStack(
                        WithoutLocationLines(StoredEntries(h, id)[m].k))) :
                    m \in 1..Len(StoredEntries(h, id))} :
            id \in {x \in IdRange : GKey(hosts[h], x) \in DOMAIN store}}

\* C15 (as stated): location lines contribute no symbol.  Every key
\* f:<symbol> and every element of m:funcs is a symbol of the stored
\* stacks with their location lines left out, and every stored entry-point
\* label is the label of its stack with the location lines left out.
C15_LocationLinesGiveNoSymbol ==
    pc # "start" =>
        /\ \A k \in FuncKeys :
                /\ ~IsLocationLine(SymbolOf(k))
                /\ \E h \in HostIdxs : SymbolOf(k) \in SymbolsSansLocation(h)
        /\ MFuncsKey \in DOMAIN store =>
                \A fn \in Range(store[MFuncsKey].v) : ~IsLocationLine(fn)
        /\ \A h \in HostIdxs, p \in IdRange :
                CKey(hosts[h], p) \in DOMAIN store =>
                    \A n \in 1..Len(StoredChildren(h, p)) :
                        LET ci == StoredChildren(h, p)[n]
                            es == StoredEntries(h, ci.i)
                        IN  ci.f = extractFirstTwoFuncs(
                                      WithoutLocationLines(es[FirstWithParent(es)].k))


(***************************************************************************)
(* The two symbol extractors on one symbol line                            *)
(***************************************************************************)
\* the parts a symbol line of a dump is made of: package path, package,
\* receiver, function name, argument list
PathParts == {<<>>, <<"p","/">>, <<"a",".","b","/","c","/">>}

PackageParts == {<<"q",".">>, <<"m","a","i","n",".">>}

ReceiverParts == {<<>>, <<"(","*","T",")",".">>, <<"T",".">>}

NameParts == {<<"F">>, <<"f","u","n","c","1">>, <<"F",".","f","u","n","c","1">>}

ArgParts == {<<"(",")">>, <<"(","0","x","c","0","1",")">>,
             <<"(","0","x","c","0","1",","," ","0","x","2","?",")">>}

SymbolLines ==
    {Concat(<<pa, pk, rc, nm, ar>>) :
        pa \in PathParts, pk \in PackageParts, rc \in ReceiverParts,
        nm \in NameParts, ar \in ArgParts}

InitExtract == PipelineIdle /\ input \in SymbolLines /\ output = <<>>

\* the line is normalized as parseGoroutineBlock stores it, then read by the
\* extractor of the function index and by the extractor of the labels
ExtractBoth ==
    /\ output = <<>>
    /\ LET line == NormalizeLine(input)
       IN  output' = <<extractFuncsFromStack(line), extractFirstTwoFuncs(line)>>
    /\ UNCHANGED <<pipelineVars, input>>

SpecExtract == InitExtract /\ [][ExtractBoth]_vars

\* C16: for every normalized symbol line the extractor of the function
\* occurrence builder yields the same symbol as the extractor of the
\* entry-point labels
C16_ExtractorsAgree ==
    output # <<>> => output[1] = <<output[2]>>


(***************************************************************************)
(* How often a key is written                                              *)
(***************************************************************************)
\* the symbols in the dumps of host number h that parse
HostSymbols(h) ==
    UNION {UNION {SymbolsOf(ParsedDump[files[h][i].kind][id].stack) :
                    id \in DumpTaskIds(files[h][i].kind)} :
            i \in ParsedFiles(h)}

\* the hosts named by the occurrences of a stored f: record
HostsIn(k) == {store[k].v.o[i].h : i \in 1..Len(store[k].v.o)}

\* C17: during one rebuild every key other than f:<symbol> is written
\* exactly once (each g:, c:, s: key, m:hosts and m:funcs); a key
\* f:<symbol> is written once per host in whose series the symbol occurs,
\* and each of these writes appends the occurrences of the host to the
\* record it read, so the record names as many hosts as it was written.
C17_KeysWrittenOnce ==
    /\ \A k \in DOMAIN writes :
            IF k[1] = "f"
            THEN /\ k \in DOMAIN store
                 /\ writes[k] = Cardinality(HostsIn(k))
                 /\ \A h \in HostIdxs : hosts[h] \in HostsIn(k) =>
                        SymbolOf(k) \in HostSymbols(h)
            ELSE writes[k] = 1
    /\ pc = "done" =>
            /\ DOMAIN writes = DOMAIN store
            /\ MHostsKey \in DOMAIN writes /\ MFuncsKey \in DOMAIN writes
            /\ \A h \in HostIdxs :
                    /\ SKey(hosts[h]) \in DOMAIN writes
                    /\ \A id \in IdRange :
                            DumpsWith(h, id) # {} =>
                                /\ GKey(hosts[h], id) \in DOMAIN writes
                                /\ \A n \in 1..Len(StoredEntries(h, id)) :
                                        HasParent(StoredEntries(h, id)[n]) =>
                                            CKey(hosts[h], StoredEntries(h, id)[n].c)
                                                \in DOMAIN writes
                    /\ \A fn \in HostSymbols(h) :
                            /\ FKey(fn) \in DOMAIN writes
                            /\ hosts[h] \in HostsIn(FKey(fn))

\* a finished rebuild of two hosts that share a symbol and both have a
\* goroutine with children
C17_Witness ==
    /\ pc = "done"
    /\ Len(hosts) = 2
    /\ \E k \in DOMAIN writes : k[1] = "f" /\ writes[k] = 2
    /\ \A h \in HostIdxs : \E p \in IdRange : CKey(hosts[h], p) \in DOMAIN writes


(***************************************************************************)
(* gweb: the web server reading the index                                  *)
(***************************************************************************)
\* the query parameters of the requests: absent, a host of the index, a
\* host that is not indexed; absent, ids of the dumps, an id of no dump
QueryHosts == {<<>>, HostNames[1], <<"z">>}

QueryIds == {<<>>, <<"1">>, <<"2">>, <<"9">>}

NoRequest == [path |-> "", host |-> <<>>, id |-> <<>>]

NoResponse == [status |-> 0, null |-> FALSE, body |-> <<>>, text |-> ""]

\* the server opens the store the way the indexer does
OpenReadOnly_asIndexer(st) == RemoveAll(st)

\* pebble.Open(*dbPath, &pebble.Options{ReadOnly: true}): the files at the
\* path are used as they are
OpenReadOnly(st) == st

\* db.Get: err is pebble.ErrNotFound when the key is absent
dbGet(st, key) ==
    IF key \in DOMAIN st THEN [err |-> FALSE, val |-> st[key]]
    ELSE [err |-> TRUE, val |-> Nil]

\* decompressJSON of gweb: gunzip, then json.Unmarshal
gwebDecompressJSON(value) ==
    [err |-> value.codec # "gzip+json", v |-> value.v]

\* http.Error(w, text, code)
httpError(text, code) == [status |-> code, null |-> FALSE, body |-> <<>>, text |-> text]

\* writeJSON(w, v): status 200, the value encoded; a nil slice encodes as null
writeJSON(v, isNil) ==
    [status |-> 200, null |-> isNil, body |-> IF isNil THEN <<>> ELSE v, text |-> ""]

\* fmt.Sprintf("g:%s:%s", host, goroID) and fmt.Sprintf("c:%s:%s", ...)
QueryKey(kind, hostParam, idParam) == <<kind, ":">> \o hostParam \o <<":">> \o idParam

\* a stored entry decoded into a StackEntry
EntryOfJSON(j) ==
    [Timestamp |-> j.t, State |-> j.s, Stack |-> j.k,
     CreatedBy |-> IF "c" \in DOMAIN j THEN j.c ELSE 0]

\* a stored series decoded into a GoroutineTimeSeries
SeriesOfJSON(j) == [i \in 1..Len(j.e) |-> EntryOfJSON(j.e[i])]

handleIndex == [status |-> 200, null |-> FALSE, body |-> <<>>, text |-> "html"]

handleHosts(st) ==
    LET g == dbGet(st, MHostsKey)
    IN  IF g.err \/ g.val.null THEN writeJSON(<<>>, TRUE)
        ELSE writeJSON(g.val.v, FALSE)

handleGoroutine(st, hostParam, goroID) ==
    IF hostParam = <<>> \/ goroID = <<>>
    THEN httpError("host and id parameters required", 400)
    ELSE LET g == dbGet(st, QueryKey("g", hostParam, goroID))
         IN  IF g.err THEN httpError("Goroutine not found", 404)
             ELSE LET d == gwebDecompressJSON(g.val)
                  IN  IF d.err THEN httpError("Failed to decode data", 500)
                      ELSE writeJSON(SeriesJSON(SeriesOfJSON(d.v)), FALSE)

\* the loop of handleStats over the hosts of m:hosts
RECURSIVE HostStatsOf(_, _)
HostStatsOf(st, hs) ==
    IF Len(hs) = 0 THEN <<>>
    ELSE LET g == dbGet(st, SKey(hs[1]))
             d == gwebDecompressJSON(g.val)
         IN  (IF g.err THEN <<>>
              ELSE IF d.err THEN <<>>
              ELSE <<[host |-> hs[1], timestamps |-> d.v.t, counts |-> d.v.c]>>)
             \o HostStatsOf(st, Tail(hs))

handleStats(st) ==
    LET g == dbGet(st, MHostsKey)
        hs == IF g.err \/ g.val.null THEN <<>> ELSE g.val.v
        allStats == HostStatsOf(st, hs)
    IN  writeJSON(allStats, allStats = <<>>)

\* the parent answers 404 when it has no children
handleChildren_notFound(st, hostParam, parentID) ==
    IF hostParam = <<>> \/ parentID = <<>>
    THEN httpError("host and id parameters required", 400)
    ELSE httpError("Goroutine not found", 404)

handleChildren(st, hostParam, parentID) ==
    IF hostParam = <<>> \/ parentID = <<>>
    THEN httpError("host and id parameters required", 400)
    ELSE LET g == dbGet(st, QueryKey("c", hostParam, parentID))
         IN  IF g.err THEN writeJSON(<<>>, FALSE)
             ELSE LET d == gwebDecompressJSON(g.val)
                  IN  IF d.err THEN httpError("Failed to decode data", 500)
                      ELSE writeJSON([i \in 1..Len(d.v) |->
                                        [id |-> d.v[i].i, funcs |-> d.v[i].f,
                                         first |-> d.v[i].s, last |-> d.v[i].e]],
                                     FALSE)

\* the loop of handleSearch over the keys between prefix and prefix+"\xff",
\* in key order
RECURSIVE MatchesOf(_, _, _, _)
MatchesOf(st, keys, prefix, goroID) ==
    IF Len(keys) = 0 THEN <<>>
    ELSE LET id == Slice(keys[1], Len(prefix), Len(keys[1]))
             d == gwebDecompressJSON(st[keys[1]])
             rest == MatchesOf(st, Tail(keys), prefix, goroID)
         IN  IF goroID # <<>> /\ ~Contains(id, goroID) THEN rest
             ELSE IF d.err THEN rest
             ELSE IF Len(d.v.e) > 0
                  THEN <<[id |-> id, count |-> Len(d.v.e),
                          first |-> d.v.e[1].t, last |-> d.v.e[Len(d.v.e)].t]>> \o rest
                  ELSE rest

handleSearch(st, hostParam, goroID) ==
    IF hostParam = <<>> THEN httpError("host parameter required", 400)
    ELSE LET prefix == <<"g", ":">> \o hostParam \o <<":">>
             keys == sortStrings({k \in DOMAIN st : HasPrefix(k, prefix)})
             matches == MatchesOf(st, keys, prefix, goroID)
         IN  writeJSON(matches, matches = <<>>)

serveFrame == <<inputVars, store, pc, hostIdx, allFuncs, logged, parseLog, writes,
                faultHit, parseVars, aggVars, occVars, writeVars>>

\* main of gweb, started on the index of a finished rebuild
OpenWeb ==
    /\ pc = "done"
    /\ store' = OpenReadOnly(store)
    /\ pc' = "serving"
    /\ input' = NoRequest
    /\ output' = NoResponse
    /\ UNCHANGED <<inputVars, hostIdx, allFuncs, logged, parseLog, writes, faultHit,
                   parseVars, aggVars, occVars, writeVars>>

ServeIndex ==
    /\ pc = "serving"
    /\ input' = [path |-> "/", host |-> <<>>, id |-> <<>>]
    /\ output' = handleIndex
    /\ UNCHANGED serveFrame

ServeHosts ==
    /\ pc = "serving"
    /\ input' = [path |-> "/api/hosts", host |-> <<>>, id |-> <<>>]
    /\ output' = handleHosts(store)
    /\ UNCHANGED serveFrame

ServeGoroutine ==
    /\ pc = "serving"
    /\ \E h \in QueryHosts, id \in QueryIds :
        /\ input' = [path |-> "/api/goroutine", host |-> h, id |-> id]
        /\ output' = handleGoroutine(store, h, id)
    /\ UNCHANGED serveFrame

ServeSearch ==
    /\ pc = "serving"
    /\ \E h \in QueryHosts, id \in QueryIds :
        /\ input' = [path |-> "/api/search", host |-> h, id |-> id]
        /\ output' = handleSearch(store, h, id)
    /\ UNCHANGED serveFrame

ServeStats ==
    /\ pc = "serving"
    /\ input' = [path |-> "/api/stats", host |-> <<>>, id |-> <<>>]
    /\ output' = handleStats(store)
    /\ UNCHANGED serveFrame

ServeChildren ==
    /\ pc = "serving"
    /\ \E h \in QueryHosts, id \in QueryIds :
        /\ input' = [path |-> "/api/children", host |-> h, id |-> id]
        /\ output' = handleChildren(store, h, id)
    /\ UNCHANGED serveFrame

NextServe ==
    \/ Next
    \/ OpenWeb
    \/ ServeIndex
    \/ ServeHosts
    \/ ServeGoroutine
    \/ ServeSearch
    \/ ServeStats
    \/ ServeChildren

\* a rebuild over one host, then the web server answering requests
SpecServe == InitKin /\ [][NextServe]_vars

\* C18: the web server performs no mutation.  From the moment the rebuild
\* is over, whatever requests to /, /api/hosts, /api/goroutine,
\* /api/search, /api/stats and /api/children are answered, no step changes
\* the contents of the store.
C18_ServerLeavesStore ==
    [][(pc \in {"done", "serving"}) => (store' = store)]_vars

\* a search answered with matches out of a store that holds series
C18_Witness ==
    /\ pc = "serving"
    /\ input.path = "/api/search"
    /\ output.status = 200 /\ ~output.null /\ Len(output.body) >= 2
    /\ DOMAIN store # {}

\* C19: query-side not-found.  /api/goroutine answers 400 when host or id
\* is missing and 404 when the key g:<host>:<id> is absent; /api/children
\* answers 400 when host or id is missing and 200 with an empty list when
\* the key c:<host>:<id> is absent; no answer to a request for an absent
\* key has status 500.
C19_NotFoundResponses ==
    pc = "serving" =>
        /\ input.path = "/api/goroutine" =>
                IF input.host = <<>> \/ input.id = <<>>
                THEN output.status = 400
                ELSE QueryKey("g", input.host, input.id) \notin DOMAIN store =>
                        output.status = 404
        /\ input.path = "/api/children" =>
                IF input.host = <<>> \/ input.id = <<>>
                THEN output.status = 400
                ELSE QueryKey("c", input.host, input.id) \notin DOMAIN store =>
                        /\ output.status = 200
                        /\ ~output.null
                        /\ output.body = <<>>
        /\ input.path \in {"/api/hosts", "/api/stats", "/api/search"} =>
                output.status \in {200, 400}

\* the children of a goroutine that has none are asked for, in an index
\* in which another goroutine of the same host has children
C19_Witness ==
    /\ pc = "serving"
    /\ input.path = "/api/children"
    /\ input.host = HostNames[1] /\ input.id = <<"2">>
    /\ QueryKey("c", input.host, input.id) \notin DOMAIN store
    /\ QueryKey("c", input.host, <<"1">>) \in DOMAIN store
    /\ QueryKey("g", input.host, input.id) \in DOMAIN store
    /\ output.status = 200


(***************************************************************************)
(* Who runs when                                                           *)
(***************************************************************************)
\* parser workers that have been started and have not returned
ParserWorkersLive == wIdle + Cardinality(wParsing)

OccWorkersStarted == {w \in 1..MaxWorkers : ostate[w] # "none"}

OccWorkersRunning == {w \in 1..MaxWorkers : ostate[w] = "running"}

\* the series map holds one entry per goroutine of every dump of the host
\* that parses
SeriesComplete ==
    /\ DOMAIN goroSeries = {id \in IdRange : DumpsWith(hostIdx, id) # {}}
    /\ \A id \in DOMAIN goroSeries :
            Len(goroSeries[id]) = Cardinality(DumpsWith(hostIdx, id))

\* C20: happens-before and single writer within processHost.  In every
\* state a step leads to in which a function-occurrence worker has been
\* started, every parser worker has exited and every StackEntry is in the
\* series map; no step taken while an occurrence worker runs changes the
\* series map; and every step that writes to the store or to the batch is
\* taken when no parser worker and no occurrence worker is running.
C20_HappensBeforeSingleWriter ==
    [][/\ (OccWorkersStarted # {} =>
                /\ wExited = numWorkers
                /\ ParserWorkersLive = 0
                /\ resultsClosed
                /\ SeriesComplete)'
       /\ OccWorkersRunning # {} => goroSeries' = goroSeries
       /\ (writes' # writes \/ store' # store \/ batch' # batch) =>
                (ParserWorkersLive = 0 /\ OccWorkersRunning = {})]_vars

\* two occurrence workers were started on a series map of several
\* goroutines; one has returned, the other is running
C20_Witness ==
    /\ pc = "merge"
    /\ numWorkers = 2
    /\ ostate[1] = "exited" /\ ostate[2] = "running"
    /\ Cardinality(DOMAIN goroSeries) >= 2
    /\ Len(allResults) = 2


(***************************************************************************)
(* The chunks of the occurrence workers                                    *)
(***************************************************************************)
\* the longest list of goroutine ids and the largest worker count tried
MaxIds == 8

MaxShards == 7

\* goroIDs: n distinct ids, as the keys of a map are
IdList(n) == [i \in 1..n |-> 2 * i + 1]

InitChunk ==
    /\ PipelineIdle
    /\ input \in {[goroIDs |-> IdList(n), workers |-> w] :
                    n \in 0..MaxIds, w \in 1..MaxShards}
    /\ output = <<>>

\* the loop that cuts goroIDs[start:end] for i = 0 .. numWorkers-1
CutChunks ==
    /\ output = <<>>
    /\ output' = [w \in 1..input.workers |->
                    Chunk(input.goroIDs, input.workers, w - 1)]
    /\ UNCHANGED <<pipelineVars, input>>

SpecChunk == InitChunk /\ [][CutChunks]_vars

\* the workers whose chunk holds the id
HoldersOf(id) ==
    {w \in 1..Len(output) : \E n \in 1..Len(output[w]) : output[w][n] = id}

\* C21: for every number n >= 0 of goroutine ids and every worker count
\* w >= 1 the chunks are contiguous pieces of the id list in worker order,
\* of at most ceil(n/w) ids each; joined they are the id list, so they are
\* pairwise disjoint, cover every id, and each id is held by one worker.
C21_ChunksPartitionIds ==
    output # <<>> =>
        LET n == Len(input.goroIDs)
            w == input.workers
        IN  /\ Concat(output) = input.goroIDs
            /\ \A i \in 1..Len(output) : Len(output[i]) * w < n + w
            /\ \A i \in 1..Len(output) - 1 :
                    output[i + 1] # <<>> => Len(output[i]) * w >= n
            /\ \A i \in 1..n : Cardinality(HoldersOf(input.goroIDs[i])) = 1

\* the ids do not divide evenly: the last worker that runs has a shorter
\* chunk and a later worker has none
C21_Witness ==
    /\ output # <<>>
    /\ Len(input.goroIDs) = 7 /\ input.workers = 5
    /\ Len(output[1]) = 2 /\ Len(output[4]) = 1 /\ output[5] = <<>>


(***************************************************************************)
(* The occurrences of one goroutine                                        *)
(***************************************************************************)
\* the longest series tried
MaxEntries == 3

\* normalized stacks as parseGoroutineBlock stores them: F calling itself,
\* H above F, main alone, a method above H
EntryStacks ==
    {Join(<<NormalizeLine(L_F), NormalizeLine(L_FLoc),
            NormalizeLine(L_F), NormalizeLine(L_FLoc)>>),
     Join(<<NormalizeLine(L_H), NormalizeLine(L_F), NormalizeLine(L_FLoc)>>),
     Join(<<NormalizeLine(L_main), NormalizeLine(L_mainLoc)>>),
     Join(<<NormalizeLine(L_M), NormalizeLine(L_H)>>)}

\* the series of one goroutine: entries at rising timestamps
EntrySeries ==
    UNION {{[i \in 1..n |-> [Timestamp |-> Stamp(i), State |-> <<"r">>,
                              Stack |-> st[i], CreatedBy |-> 0]] :
                st \in [1..n -> EntryStacks]} : n \in 1..MaxEntries}

InitOcc == PipelineIdle /\ input \in EntrySeries /\ output = <<>>

\* the body of the occurrence worker's loop for goroutine 5 of host h1
BuildOccurrences ==
    /\ output = <<>>
    /\ output' = <<GoroResults(HostNames[1], [id \in {5} |-> input], 5)>>
    /\ UNCHANGED <<pipelineVars, input>>

SpecOcc == InitOcc /\ [][BuildOccurrences]_vars

\* the symbols on the lines of the stacks of a series
LineSymbols(series) ==
    {fn \in UNION {{SubSeq(ln, 1, k) : k \in 1..Len(ln)} :
                    ln \in UNION {Range(Split(series[n].Stack)) : n \in 1..Len(series)}} :
        \E n \in 1..Len(series) :
            \E ln \in Range(Split(series[n].Stack)) : FuncOfLine(ln) = <<fn>>}

\* C22: for each goroutine the occurrence builder emits exactly one
\* occurrence per distinct symbol found in any entry of its series, however
\* often the symbol appears, and nothing else; first-seen and last-seen of
\* every occurrence are the timestamps of the first and the last entry of
\* the whole series.
C22_OneOccurrencePerSymbol ==
    output # <<>> =>
        /\ {r.fn : r \in output[1]} = LineSymbols(input)
        /\ \A fn \in LineSymbols(input) :
                Cardinality({r \in output[1] : r.fn = fn}) = 1
        /\ \A r \in output[1] :
                /\ r.goroID = 5
                /\ r.occ.GoroutineID = 5
                /\ r.occ.Host = HostNames[1]
                /\ r.occ.FirstSeen = input[1].Timestamp
                /\ r.occ.LastSeen = input[Len(input)].Timestamp

\* a series of three entries in which main appears in the middle entry
\* only, and F twice in the first entry and again in the last
C22_Witness ==
    /\ output # <<>>
    /\ Len(input) = 3
    /\ LineSymbols(<<input[2]>>) = {<<"m","a","i","n",".","m","a","i","n">>}
    /\ LineSymbols(<<input[1]>>) = {<<"p","/","q",".","F">>}
    /\ LineSymbols(<<input[3]>>) = {<<"p","/","q",".","H">>, <<"p","/","q",".","F">>}
    /\ Cardinality(output[1]) = 3


(***************************************************************************)
(* The canonical parent                                                    *)
(***************************************************************************)
\* the places <<parent id, position>> at which a goroutine is listed as a
\* child in the stored children lists of host number h
ListingsOf(h, id) ==
    {x \in IdRange \X (1..Cardinality(IdRange)) :
        /\ CKey(hosts[h], x[1]) \in DOMAIN store
        /\ x[2] <= Len(StoredChildren(h, x[1]))
        /\ StoredChildren(h, x[1])[x[2]].i = id}

\* C23: once the children lists of a host are written, a goroutine is
\* listed as a child if and only if at least one entry of its series has a
\* non-zero parent id, also when its earliest entry has none; it is listed
\* under the parent id of the first such entry in series order; and the
\* first-seen and last-seen of its ChildInfo are the timestamps of the
\* first and the last entry of its series.
C23_CanonicalParent ==
    \A h \in HostIdxs :
        StatsWritten(h) =>
            \A id \in IdRange :
                GKey(hosts[h], id) \in DOMAIN store =>
                    LET es == StoredEntries(h, id)
                        withParent == {n \in 1..Len(es) : HasParent(es[n])}
                    IN  IF withParent = {} THEN ListingsOf(h, id) = {}
                        ELSE /\ Cardinality(ListingsOf(h, id)) = 1
                             /\ \A x \in ListingsOf(h, id) :
                                    /\ x[1] = es[Min(withParent)].c
                                    /\ StoredChildren(h, x[1])[x[2]].s = es[1].t
                                    /\ StoredChildren(h, x[1])[x[2]].e = es[Len(es)].t

\* a child is stored whose earliest entry has no parent id and whose
\* series has a later entry with one; another goroutine of the host has no
\* parent id in any entry
C23_Witness ==
    /\ pc = "done"
    /\ \E h \in HostIdxs, id \in IdRange :
        /\ GKey(hosts[h], id) \in DOMAIN store
        /\ Len(StoredEntries(h, id)) = 2
        /\ ~HasParent(StoredEntries(h, id)[1])
        /\ HasParent(StoredEntries(h, id)[2])
        /\ ListingsOf(h, id) # {}
    /\ \E h \in HostIdxs, id \in IdRange :
        /\ GKey(hosts[h], id) \in DOMAIN store
        /\ \A n \in 1..Len(StoredEntries(h, id)) : ~HasParent(StoredEntries(h, id)[n])

(***************************************************************************)
(* The batches of the series writes (processHost, the loop over goroSeries): *)
(* the loop at the level of its counters                                     *)
(***************************************************************************)

\* the largest number of full batches a host's series fill
MaxBatches == 1

\* the largest number of series compressJSON fails on
MaxEncodeErrors == 1

\* the numbers of series tried: around every multiple of the batch limit
SeriesCounts ==
    {n \in {k * BatchLimit + d : k \in 0..MaxBatches, d \in {-1, 0, 1}} : n >= 0}

\* batch := db.NewBatch(); batchSize := 0, with the loop's history:
\* todo: series the range has not yielded; held: records in the batch in
\* hand; commits: the sizes of the batches committed; encoded: series
\* compressJSON returned a value for
InitBatch ==
    /\ PipelineIdle
    /\ input \in {[series |-> n] : n \in SeriesCounts}
    /\ output = [todo |-> input.series, batchSize |-> 0, held |-> 0,
                 commits |-> <<>>, encoded |-> 0, errors |-> 0, done |-> FALSE]

\* compressJSON returns an error: log and continue
BatchSkip ==
    /\ ~output.done /\ output.todo > 0
    /\ output.errors < MaxEncodeErrors
    /\ output' = [output EXCEPT !.todo = @ - 1, !.errors = @ + 1]
    /\ UNCHANGED <<pipelineVars, input>>

\* batch.Set; batchSize++; if batchSize >= 1000 { Commit; NewBatch; batchSize = 0 }
BatchSet ==
    /\ ~output.done /\ output.todo > 0
    /\ LET full == BatchFull(output.batchSize + 1)
       IN  output' = [output EXCEPT
                !.todo = @ - 1,
                !.encoded = @ + 1,
                !.held = IF full THEN 0 ELSE @ + 1,
                !.batchSize = IF full THEN 0 ELSE @ + 1,
                !.commits = IF full THEN Append(@, output.held + 1) ELSE @]
    /\ UNCHANGED <<pipelineVars, input>>

\* if batchSize > 0 { batch.Commit(pebble.Sync) }
BatchEnd ==
    /\ ~output.done /\ output.todo = 0
    /\ output' = [output EXCEPT
            !.done = TRUE,
            !.held = IF output.batchSize > 0 THEN 0 ELSE @,
            !.commits = IF output.batchSize > 0 THEN Append(@, output.held) ELSE @]
    /\ UNCHANGED <<pipelineVars, input>>

SpecBatch == InitBatch /\ [][BatchSkip \/ BatchSet \/ BatchEnd]_vars

RECURSIVE SumOf(_)
SumOf(seq) == IF seq = <<>> THEN 0 ELSE seq[1] + SumOf(Tail(seq))

\* C24: no committed batch of series holds more than 1000 records; the batch
\* in hand never holds 1000 after an iteration (it was committed when it
\* reached them), so every committed batch but the last is full; when the
\* loop has ended every series that was encoded is in a committed batch and
\* none is left uncommitted, for every number of series, multiples of 1000
\* and zero included.
C24_BatchesOfAtMostLimit ==
    /\ \A i \in 1..Len(output.commits) :
        /\ output.commits[i] <= BatchLimit
        /\ (i < Len(output.commits) \/ ~output.done) => output.commits[i] = BatchLimit
    /\ output.held < BatchLimit
    /\ ~output.done => output.held = output.batchSize
    /\ output.encoded = SumOf(output.commits) + output.held
    /\ output.done =>
        /\ output.held = 0
        /\ SumOf(output.commits) = output.encoded
        /\ output.encoded = input.series - output.errors

\* a host whose series fill full batches exactly has been written: the loop
\* committed the last full batch and the commit after it had nothing to store
C24_Witness ==
    /\ output.done
    /\ input.series = MaxBatches * BatchLimit
    /\ output.errors = 0
    /\ output.commits = [i \in 1..MaxBatches |-> BatchLimit]

(***************************************************************************)
(* The list of function symbols (runIndex, m:funcs)                         *)
(***************************************************************************)

\* every host directory holds at most one dump
OneDumpLists ==
    {<<>>} \cup {<<[name |-> Stamp(1), kind |-> k]>> : k \in DumpKinds}

InitFuncs ==
    /\ hosts = HostNames
    /\ files \in [1..Len(hosts) -> OneDumpLists]
    /\ numWorkers \in 1..MaxWorkers
    /\ fault = NoFault
    /\ ControlInit

SpecFuncs == InitFuncs /\ [][Next]_vars

\* C25: after a rebuild m:funcs is a list in strictly increasing order (so
\* sorted and free of duplicates) whose elements are the symbols S with a key
\* f:S in the store, which are the symbols indexed for some host.
C25_FuncListMatchesKeys ==
    pc = "done" =>
        /\ MFuncsKey \in DOMAIN store
        /\ store[MFuncsKey].codec = "json" /\ ~store[MFuncsKey].null
        /\ LET list == store[MFuncsKey].v
           IN  /\ \A i \in 1..(Len(list) - 1) : StringLess(list[i], list[i + 1])
               /\ Range(list) = {SymbolOf(k) : k \in FuncKeys}
               /\ Range(list) = UNION {HostSymbols(h) : h \in HostIdxs}

\* the rebuild of two hosts has ended, each host has a symbol the other has
\* not, and the list holds both
C25_Witness ==
    /\ pc = "done"
    /\ HostSymbols(1) \ HostSymbols(2) # {}
    /\ HostSymbols(2) \ HostSymbols(1) # {}
    /\ Len(store[MFuncsKey].v) >= 2

(***************************************************************************)
(* Termination of the parallel phases                                      *)
(***************************************************************************)

\* the steps of the rebuild other than the send of an occurrence worker and
\* the building of the children index
PlainStep ==
    \/ OpenDB \/ StoreHosts \/ BeginHost \/ QueueFile \/ CloseFileCh \/ WorkerRecv
    \/ (\E file \in wParsing : WorkerParse(file)) \/ WorkerExit \/ CloseResults
    \/ Collect \/ Aggregate \/ StartOccWorkers \/ CloseResultCh \/ MergeRecv
    \/ MergeDone \/ WriteSeries \/ FlushSeries \/ WriteChildren \/ WriteStats
    \/ MergeFuncIndex \/ ReturnHost \/ StoreFuncs

\* the Go scheduler runs some goroutine as long as one can run, and runs
\* every occurrence worker that can send. The last two conjuncts are the
\* weak fairness of OccWorker(w) and of BuildChildren, with ENABLED written
\* out as the guard of the action.
SpecLive ==
    /\ InitDrop /\ [][Next]_vars
    /\ WF_vars(PlainStep)
    /\ \A w \in 1..MaxWorkers :
        \/ []<>~(ostate[w] = "running" /\ Len(resultCh) < ResultChCap(numWorkers))
        \/ []<><<OccWorker(w)>>_vars
    /\ ([]<>(pc # "children") \/ []<><<BuildChildren>>_vars)

\* the parse phase has ended: every parser worker has returned, results was
\* closed and the collector holds a result for every file that parsed
ParsePhaseEnded ==
    /\ wExited = numWorkers /\ wIdle = 0 /\ wParsing = {}
    /\ fileCh = <<>> /\ resultsClosed /\ results = <<>>
    /\ Len(allResults) = Cardinality(ParsedFiles(hostIdx))

\* the occurrence phase has ended: no occurrence worker runs, resultCh was
\* closed and the merge loop took everything from it
OccPhaseEnded ==
    /\ \A w \in 1..MaxWorkers : ostate[w] # "running"
    /\ resultChClosed /\ resultCh = <<>>

\* C26: under fair scheduling, for every list of dump files (the empty one
\* included) and every worker count from 1, the rebuild reaches its end;
\* processHost leaves the parse phase only with every parser worker
\* returned, results closed after them and every result received, and it
\* leaves the occurrence phase only with every occurrence worker returned,
\* resultCh closed after them and every result merged.
C26_PhasesTerminate ==
    /\ <>(pc = "done")
    /\ [](pc \in {"occ", "merge", "series"} => ParsePhaseEnded)
    /\ [](pc \in {"series", "children", "writeChildren", "funcs"} => OccPhaseEnded)
    /\ [](resultsClosed => wExited = numWorkers)
    /\ [](resultChClosed => \A w \in 1..MaxWorkers : ostate[w] # "running")

\* an occurrence phase with two workers has ended after a parse phase in
\* which a file failed to parse
C26_Witness ==
    /\ pc = "series" /\ OccPhaseEnded
    /\ Cardinality({w \in 1..MaxWorkers : ostate[w] = "exited"}) = 2
    /\ Cardinality(ParsedFiles(hostIdx)) < Len(files[hostIdx])
    /\ wExited = numWorkers /\ resultsClosed

(***************************************************************************)
(* The sends of processHost                                                *)
(***************************************************************************)

\* C27: no send of processHost waits for room. When the driver is about to
\* queue a file fileCh holds fewer than len(files) values; while a parser
\* worker holds a file results holds fewer than len(files) values; while an
\* occurrence worker runs resultCh holds fewer values than its capacity. The
\* values sent and still to send never exceed the capacity: one per file on
\* fileCh, at most one per file on results, one per started occurrence
\* worker on resultCh.
C27_SendsNeverBlock ==
    pc \in {"queue", "collect", "occ", "merge"} =>
        /\ (pc = "queue" /\ nQueued < Len(files[hostIdx])) =>
                Len(fileCh) < Len(files[hostIdx])
        /\ Len(fileCh) <= nQueued /\ nQueued <= Len(files[hostIdx])
        /\ wParsing # {} => Len(results) < Len(files[hostIdx])
        /\ Len(results) + Len(allResults) + Cardinality(wParsing) + Len(fileCh)
                + (Len(files[hostIdx]) - nQueued) <= Len(files[hostIdx])
        /\ \A w \in 1..MaxWorkers :
                ostate[w] = "running" => Len(resultCh) < ResultChCap(numWorkers)
        /\ Len(resultCh) + Cardinality({w \in 1..MaxWorkers : ostate[w] = "running"})
                <= ResultChCap(numWorkers)

\* an occurrence worker is about to send while resultCh holds the result of
\* another, and before that a parser worker sent while results held one
C27_Witness ==
    /\ pc = "merge"
    /\ \E w \in 1..MaxWorkers : ostate[w] = "running"
    /\ Len(resultCh) = 1
    /\ Len(allResults) = 2 /\ reordered

(***************************************************************************)
(* Worker counts below one (main: --workers is passed on as it is)         *)
(***************************************************************************)

\* flag.Int("workers", ...): any integer; runIndex(*inputDir, *dbPath, *workers)
InitWorkers ==
    /\ hosts = <<HostNames[1]>>
    /\ files \in [{1} -> KinFileLists]
    /\ numWorkers \in -1..MaxWorkers
    /\ fault = NoFault
    /\ ControlInit

SpecWorkers == InitWorkers /\ [][Next]_vars

\* C28: for every integer worker count, zero and negative ones included, the
\* rebuild meets no runtime fault and, when it has ended, every goroutine of
\* every dump file of the host has its series in the store.
C28_AnyWorkerCount ==
    /\ pc # "panic"
    /\ pc = "done" =>
        \A h \in HostIdxs, id \in IdRange :
            DumpsWith(h, id) # {} => GKey(hosts[h], id) \in DOMAIN store

(***************************************************************************)
(* The format converter (gcount): parseAndGroup and formatDebug1            *)
(***************************************************************************)

\* the largest number of goroutine blocks in a dump handed to the converter
MaxBlocks == 3

NotBracketEnd(c) == c # "]"

\* goroutineHeaderRe = `(?m)^goroutine \d+ \[([^\]]+)\]:` applied at a line
\* start (parseAndGroup, the scan for the blocks)
goroutineHeaderReMatches(line) ==
    LET n == Len(S_GoroutineSp)
        d == RunEnd(line, n, IsDigit)
        e == RunEnd(line, d + 2, NotBracketEnd)
    IN  /\ HasPrefix(line, S_GoroutineSp)
        /\ d > n
        /\ MatchAt(line, <<" ","[">>, d)
        /\ e > d + 2
        /\ MatchAt(line, <<"]",":">>, e)

\* headerRe = `^goroutine \d+ \[([^\],]+)(?:,\s*(\d+)\s*minutes?)?\]:`
\* (parseGoroutineBlock of the converter): whether the line matches, with
\* submatch 1 (the state) and submatch 2 (the digits of the wait, or none).
\* st: end of the state; w0, w1: the digits of the wait
headerReMatch(line) ==
    LET n == Len(S_GoroutineSp)
        d == RunEnd(line, n, IsDigit)
        st == RunEnd(line, d + 2, NotStateEnd)
        w0 == RunEnd(line, st + 1, IsSpace)
        w1 == RunEnd(line, w0, IsDigit)
        mi == RunEnd(line, w1, IsSpace)
        minute == <<"m","i","n","u","t","e">>
        close == <<"]",":">>
        none == [matched |-> FALSE, state |-> <<>>, wait |-> <<>>]
    IN  IF ~(HasPrefix(line, S_GoroutineSp) /\ d > n
                /\ MatchAt(line, <<" ","[">>, d) /\ st > d + 2)
            THEN none
        ELSE IF MatchAt(line, close, st)
            THEN [matched |-> TRUE, state |-> Slice(line, d + 2, st), wait |-> <<>>]
        ELSE IF /\ MatchAt(line, <<",">>, st)
                /\ w1 > w0
                /\ MatchAt(line, minute, mi)
                /\ \/ MatchAt(line, close, mi + 6)
                   \/ MatchAt(line, <<"s">> \o close, mi + 6)
            THEN [matched |-> TRUE, state |-> Slice(line, d + 2, st),
                  wait |-> Slice(line, w0, w1)]
        ELSE none

\* cleanStackLine: offsetRe, createdByRe and hexPtrRe of the converter are
\* the expressions of the indexer, applied in the same order
cleanStackLine(line) == NormalizeLine(line)

\* parseGoroutineBlock(block, groups) of the converter; block: the lines of
\* the trimmed block, header first
converterBlock(block, groups) ==
    LET match == headerReMatch(block[1])
    IN  IF ~match.matched THEN groups
        ELSE LET waitMinutes == Atoi(match.wait)
                 trimmed == [i \in 1..(Len(block) - 1) |-> TrimSpace(block[i + 1])]
                 stackLines == [i \in 1..Len(trimmed) |-> cleanStackLine(trimmed[i])]
                 stack == Join(SelectSeq(stackLines, LAMBDA l : l # <<>>))
                 key == match.state \o <<"\n">> \o stack
             IN  IF key \in DOMAIN groups
                 THEN [groups EXCEPT
                        ![key].count = @ + 1,
                        ![key].waits = IF waitMinutes > 0
                                       THEN Append(@, waitMinutes) ELSE @]
                 ELSE [k \in DOMAIN groups \cup {key} |->
                        IF k = key
                        THEN [count |-> 1, state |-> match.state, stack |-> stack,
                              waits |-> IF waitMinutes > 0 THEN <<waitMinutes>>
                                        ELSE <<>>]
                        ELSE groups[k]]

\* parseAndGroup(data); data: the lines of the dump. The blocks run from
\* one header match to the next.
RECURSIVE GroupBlocks(_, _, _)
GroupBlocks(data, starts, groups) ==
    IF starts = {} THEN groups
    ELSE LET i == Min(starts)
             rest == starts \ {i}
             end == IF rest = {} THEN Len(data) ELSE Min(rest) - 1
             lines == SubSeq(data, i, end)
             last == Max({k \in 1..Len(lines) : TrimSpace(lines[k]) # <<>>})
         IN  GroupBlocks(data, rest, converterBlock(SubSeq(lines, 1, last), groups))

parseAndGroup(data) ==
    GroupBlocks(data, {i \in 1..Len(data) : goroutineHeaderReMatches(data[i])},
                [k \in {} |-> Nil])

RECURSIVE SumCounts(_, _)
SumCounts(groups, keys) ==
    IF keys = {} THEN 0
    ELSE LET k == CHOOSE x \in keys : TRUE
         IN  groups[k].count + SumCounts(groups, keys \ {k})

\* formatDebug1: the first line of the output, "goroutine profile: total N"
formatDebug1(groups) ==
    <<"g","o","r","o","u","t","i","n","e"," ","p","r","o","f","i","l","e",":",
      " ","t","o","t","a","l"," ">> \o Itoa(SumCounts(groups, DOMAIN groups))

\* the text between the brackets of the header lines tried
HeaderStates ==
    { <<"r","u","n","n","i","n","g">>,
      <<"s","e","l","e","c","t",","," ","5"," ","m","i","n","u","t","e","s">>,
      <<"s","e","l","e","c","t",","," ","5"," ","m","i","n","u","t","e","s",",",
        " ","l","o","c","k","e","d"," ","t","o"," ","t","h","r","e","a","d">>,
      <<"r","u","n","n","i","n","g",","," ","l","o","c","k","e","d"," ","t","o",
        " ","t","h","r","e","a","d">> }

\* a dump of n blocks: block i is goroutine i, its header has the text sts[i]
\* between the brackets, its stack is one frame, and an empty line ends it
ConverterDump(sts) ==
    IF Len(sts) = 0 THEN <<>>
    ELSE LET block(i) == << S_GoroutineSp \o Itoa(i) \o <<" ","[">> \o sts[i] \o <<"]",":">>,
                            L_main, L_mainLoc, <<>> >>
         IN  Concat([i \in 1..Len(sts) |-> block(i)])

InitConvert ==
    /\ PipelineIdle
    /\ input \in {ConverterDump(sts) :
                    sts \in UNION {[1..n -> HeaderStates] : n \in 0..MaxBlocks}}
    /\ output = <<>>

\* processFile: grouped := parseAndGroup(data); output := formatDebug1(grouped)
Convert ==
    /\ output = <<>>
    /\ output' = <<formatDebug1(parseAndGroup(input))>>
    /\ UNCHANGED <<pipelineVars, input>>

SpecConvert == InitConvert /\ [][Convert]_vars

\* C29: the total printed in the first line of the converter's output is the
\* number of header lines the scan of parseAndGroup matches in the dump,
\* also when headers carry further fields after the state.
C29_TotalCountsEveryBlock ==
    output # <<>> =>
        Atoi(Slice(output[1], 25, Len(output[1])))
            = Cardinality({i \in 1..Len(input) : goroutineHeaderReMatches(input[i])})

(***************************************************************************)
(* The timeline viewer of the web UI (the script of the page gweb serves)  *)
(***************************************************************************)

\* let currentData = null; let currentFrame = 0; let playing = false;
\* let playInterval = null; the slider of the page has max="100" and the
\* viewer is not displayed. timers: the intervals set and not cleared;
\* rendered: what the last renderFrame found at currentData.e[currentFrame];
\* last: the last event handled
PageLoaded ==
    [null |-> TRUE, e |-> <<>>, currentFrame |-> 0, playing |-> FALSE, timers |-> 0,
     shown |-> FALSE, sliderMax |-> 100, sliderValue |-> 0,
     rendered |-> "none", last |-> "none"]

\* renderFrame(): returns when there is no data; reads the entry (a
\* TypeError ends the handler when there is none) and moves the slider
renderFrame(v) ==
    IF v.null THEN v
    ELSE IF v.currentFrame + 1 \in 1..Len(v.e)
         THEN [v EXCEPT !.rendered = "entry", !.sliderValue = v.currentFrame]
         ELSE [v EXCEPT !.rendered = "undefined"]

\* togglePlay() without the end test of the interval's callback
togglePlay(v) ==
    IF ~v.playing
    THEN [v EXCEPT !.playing = TRUE, !.timers = @ + 1]
    ELSE [v EXCEPT !.playing = FALSE, !.timers = @ - 1]

\* the frame is left where it was when a goroutine is loaded
FrameAfterLoad_kept(frame) == frame

\* currentFrame = 0 in loadGoroutine
FrameAfterLoad(frame) == 0

\* the browser opens the page
OpenPage ==
    /\ pc = "serving"
    /\ pc' = "viewing"
    /\ output' = PageLoaded
    /\ UNCHANGED <<inputVars, store, hostIdx, allFuncs, logged, parseLog, writes, faultHit,
                   parseVars, aggVars, occVars, writeVars, input>>

\* loadGoroutine(), from the fetch to its end: the response of the server
\* for the host selected and the id typed
LoadGoroutine ==
    /\ pc = "viewing"
    /\ \E h \in QueryHosts, id \in QueryIds :
        /\ h # <<>> /\ id # <<>>
        /\ LET resp == handleGoroutine(store, h, id)
               data == [output EXCEPT !.null = FALSE, !.e = resp.body.e, !.last = "load"]
           IN  /\ input' = [path |-> "/api/goroutine", host |-> h, id |-> id]
               /\ output' =
                    IF resp.status # 200 THEN [output EXCEPT !.last = "load"]
                    ELSE IF Len(resp.body.e) = 0 THEN data
                    ELSE renderFrame([data EXCEPT
                            !.shown = TRUE,
                            !.sliderMax = Len(resp.body.e) - 1,
                            !.sliderValue = 0,
                            !.currentFrame = FrameAfterLoad(@)])
    /\ UNCHANGED <<inputVars, store, pc, hostIdx, allFuncs, logged, parseLog, writes,
                   faultHit, parseVars, aggVars, occVars, writeVars>>

\* onSliderChange(): the slider of the displayed viewer was moved
SliderChange ==
    /\ pc = "viewing" /\ output.shown
    /\ \E value \in 0..output.sliderMax :
        output' = renderFrame([output EXCEPT !.currentFrame = value, !.last = "slider"])
    /\ UNCHANGED <<inputVars, store, pc, hostIdx, allFuncs, logged, parseLog, writes,
                   faultHit, parseVars, aggVars, occVars, writeVars, input>>

\* the keydown handler
KeyDown ==
    /\ pc = "viewing" /\ ~output.null
    /\ \E key \in {"ArrowLeft", "ArrowRight", " "} :
        output' =
            IF key = "ArrowLeft" /\ output.currentFrame > 0
                THEN renderFrame([output EXCEPT !.currentFrame = @ - 1, !.last = "key"])
            ELSE IF key = "ArrowRight" /\ output.currentFrame < Len(output.e) - 1
                THEN renderFrame([output EXCEPT !.currentFrame = @ + 1, !.last = "key"])
            ELSE IF key = " " THEN togglePlay([output EXCEPT !.last = "key"])
            ELSE [output EXCEPT !.last = "key"]
    /\ UNCHANGED <<inputVars, store, pc, hostIdx, allFuncs, logged, parseLog, writes,
                   faultHit, parseVars, aggVars, occVars, writeVars, input>>

\* the play button of the displayed viewer: onclick="togglePlay()"
PlayButton ==
    /\ pc = "viewing" /\ output.shown
    /\ output' = togglePlay([output EXCEPT !.last = "play"])
    /\ UNCHANGED <<inputVars, store, pc, hostIdx, allFuncs, logged, parseLog, writes,
                   faultHit, parseVars, aggVars, occVars, writeVars, input>>

\* the callback of setInterval
TimerTick ==
    /\ pc = "viewing" /\ output.timers > 0
    /\ output' =
        IF output.currentFrame < Len(output.e) - 1
        THEN renderFrame([output EXCEPT !.currentFrame = @ + 1, !.last = "tick"])
        ELSE togglePlay([output EXCEPT !.last = "tick"])
    /\ UNCHANGED <<inputVars, store, pc, hostIdx, allFuncs, logged, parseLog, writes,
                   faultHit, parseVars, aggVars, occVars, writeVars, input>>

NextViewer ==
    \/ Next
    \/ OpenWeb
    \/ OpenPage
    \/ LoadGoroutine
    \/ SliderChange
    \/ KeyDown
    \/ PlayButton
    \/ TimerTick

SpecViewer == InitKin /\ [][NextViewer]_vars

\* C30: in the viewer, after every event, the last renderFrame found an
\* entry at currentData.e[currentFrame] and the frame is an index of the
\* series loaded; one interval is set when playing is true and none when it
\* is false; a tick of the interval at the last frame stops the playback and
\* leaves the frame.
C30_ViewerFramesInRange ==
    [][/\ (pc' = "viewing") =>
            /\ output'.rendered # "undefined"
            /\ output'.shown =>
                    (output'.currentFrame \in 0..(Len(output'.e) - 1))
            /\ output'.timers = IF output'.playing THEN 1 ELSE 0
       /\ (TimerTick /\ output.currentFrame >= Len(output.e) - 1) =>
            /\ ~output'.playing
            /\ output'.currentFrame = output.currentFrame]_vars

\* the playback of a series of two entries was stopped by the tick of the
\* interval at the last frame
C30_Witness ==
    /\ pc = "viewing"
    /\ output.last = "tick"
    /\ ~output.playing /\ output.timers = 0
    /\ Len(output.e) = 2 /\ output.currentFrame = 1
    /\ output.rendered = "entry"

=============================================================================
